---- MODULE Spec2Model ----
(***************************************************************************)
(* State-machine model of the aice_ps front end.                           *)
(*                                                                         *)
(*   - EditorView (App.tsx): the image history, its cursor, LastAction,    *)
(*     the generative tasks in flight and the closures they captured.      *)
(*   - BeatSyncPage: the worker pool draining promptsQueue.                *)
(*   - PastForwardPage: the worker pool draining decadesQueue.             *)
(*                                                                         *)
(* React semantics kept by the model: a handler reads the state of the     *)
(* render that created it.  An async continuation (the code after an       *)
(* await) keeps the values of the render in which the handler was called,  *)
(* so a task in flight carries the history and the cursor it captured.     *)
(***************************************************************************)
EXTENDS Integers, Sequences, FiniteSets, TLC

\* ---------------------------------------------------------------- bounds
MaxFiles == 3
MaxEdTasks == 2
MaxT2I == 1
MaxBatch == 2
\* generation calls in flight behind the latest run of a batch page: the calls
\* of runs left behind while pending, and per-decade regenerations
MaxBackground == 1
\* GoogleGenAI clients constructed in one behaviour
MaxClients == 3
\* template loads of unmounted EditorView instances still pending
MaxStaleLoads == 1

\* ---------------------------------------------------------------- editor
VARIABLES history, historyIndex, isLoading, lastAction, error,
          batchCandidates, isBatchModalOpen,
          edTasks, t2iPending, ssGenerating, nextId, ev, applied

edVars == <<history, historyIndex, isLoading, lastAction, error,
            batchCandidates, isBatchModalOpen,
            edTasks, t2iPending, ssGenerating, nextId, ev, applied>>

\* ------------------------------------------------------------- BeatSync
VARIABLES bsAppState, bsUploaded, imageCount, bsImages, bsRun,
          bsStale, bsError, bsNotification, bsVideo, bsVideoFrom

bsVars == <<bsAppState, bsUploaded, imageCount, bsImages, bsRun,
            bsStale, bsError, bsNotification, bsVideo, bsVideoFrom>>

\* ---------------------------------------------------------- Past Forward
VARIABLES pfAppState, pfUploaded, pfImages, pfIsLoading, pfRun,
          pfStale, pfRegen

pfVars == <<pfAppState, pfUploaded, pfImages, pfIsLoading, pfRun,
            pfStale, pfRegen>>

\* ------------------------------------------- API settings (geminiService)
VARIABLES lsApiKey, lsBaseUrl, envApiKey, location, booted,
          aiInstance, lastUsedApiKey, lastUsedBaseUrl, aiResult, nextClient

svVars == <<lsApiKey, lsBaseUrl, envApiKey, location, booted,
            aiInstance, lastUsedApiKey, lastUsedBaseUrl, aiResult, nextClient>>

\* ------------------------- image generation with fallback (geminiService)
\* one invocation of generateFilteredImage .. generateDecadeImage: the
\* function, its prompt, how far it is, the calls of callImageEditingModel it
\* has made and the error it throws
VARIABLES genFn, genPrompt, genPhase, genCalls, genError

genVars == <<genFn, genPrompt, genPhase, genCalls, genError>>

\* ------------------------------------------- App and template loading
\* the templateId of window.location.hash, App's selectedTemplate, and of the
\* EditorView instance: isTemplateLoading, initialAdjustPrompt and its
\* loadTemplateFromId; tplStale holds the loads of instances unmounted since
VARIABLES hash, selectedTemplate, isTemplateLoading, initialAdjustPrompt,
          tplLoad, tplStale

appVars == <<hash, selectedTemplate, isTemplateLoading, initialAdjustPrompt,
             tplLoad, tplStale>>

\* --------------------------------- BeatSync: the images given to the video
\* generatedImages as a JavaScript object (its keys in creation order and
\* their status), the order in which the tasks completed, and the array
\* passed to createVideo
VARIABLES generatedImages, completionOrder, createVideoArg

voVars == <<generatedImages, completionOrder, createVideoArg>>

\* the page component the behaviour runs in (App renders one page at a time);
\* in App it is activeView
VARIABLE mounted

vars == <<edVars, bsVars, pfVars, svVars, genVars, appVars, voVars, mounted>>

EdFrame ==
    mounted = "editor" /\ UNCHANGED <<bsVars, pfVars, svVars, genVars, appVars, voVars, mounted>>
BsFrame ==
    mounted = "beat-sync" /\ UNCHANGED <<edVars, pfVars, svVars, genVars, appVars, voVars, mounted>>
PfFrame ==
    mounted = "past-forward" /\ UNCHANGED <<edVars, bsVars, svVars, genVars, appVars, voVars, mounted>>
SvFrame ==
    mounted = "settings" /\ UNCHANGED <<edVars, bsVars, pfVars, genVars, appVars, voVars, mounted>>
GenFrame ==
    mounted = "service" /\ UNCHANGED <<edVars, bsVars, pfVars, svVars, appVars, voVars, mounted>>
AppFrame == UNCHANGED <<bsVars, pfVars, svVars, genVars, voVars>>
VoFrame ==
    mounted = "video-list" /\ UNCHANGED <<edVars, bsVars, pfVars, svVars, genVars, appVars, mounted>>

\* LastAction['type'] ("none" stands for null)
ActionTypes == {"retouch", "adjust", "filters", "fusion", "texture", "erase"}
\* the handlers that take a batch count (handleApplyFilter, handleApplyAdjustment,
\* handleApplyFusion, handleApplyTexture); retouch and erase always run once
BatchTypes == {"adjust", "filters", "fusion", "texture"}

\* a File: identity, size > MAX_FILE_SIZE_BYTES, type.startsWith('image/')
File(n, b, i) == [id |-> n, big |-> b, img |-> i]
\* dataURLtoFile on a data URL returned by the service: a new png File
dataURLtoFile(n) == File(n, FALSE, TRUE)

\* ev names the handler or continuation that ran last (history variable of the model)
NoEv == "init"
Ev(o, fid, len, cur) == o

\* const currentImageFile = history[historyIndex]  (undefined when out of range)
HasCurrent == historyIndex >= 0 /\ historyIndex < Len(history)
\* <StartScreen> is rendered when there is no current image
StartScreenShown == ~HasCurrent
\* <BatchResultModal>: if (!isOpen || images.length === 0) return null
ModalShown == isBatchModalOpen /\ batchCandidates > 0
\* the editor controls are clickable: image shown, no spinner, no modal overlay
ControlsEnabled == HasCurrent /\ ~isLoading /\ ~ModalShown

\* getCroppedImg resolves with new File([blob], fileName, { type: 'image/png' })
getCroppedImg(n) == File(n, FALSE, TRUE)

updateHistoryNoSlice(h, i, newFile) == Append(h, newFile)

updateHistoryNoPush(h, i, newFile) == SubSeq(h, 1, i + 1)

\* updateHistory as evaluated in the render that owns (h, i)
updateHistory(h, i, newFile) == Append(SubSeq(h, 1, i + 1), newFile)

\* what the operation recorded in lastAction has produced so far (history
\* variable of the model): the ids of its input file and of its result;
\* NoResult while it has produced no entry
NoResult == [src |-> 0, out |-> 0]

InitEditor ==
    /\ history = << >>
    /\ historyIndex = -1
    /\ isLoading = FALSE
    /\ lastAction = "none"
    /\ error = FALSE
    /\ batchCandidates = 0
    /\ isBatchModalOpen = FALSE
    /\ edTasks = {}
    /\ t2iPending = 0
    /\ ssGenerating = FALSE
    /\ nextId = 1
    /\ ev = NoEv
    /\ applied = NoResult

\* handleLocalFileSelect, reached from StartScreen select / drop / paste
handleLocalFileSelect(path, big, img) ==
    /\ StartScreenShown
    /\ nextId <= MaxFiles
    /\ path = "paste" => img
    /\ IF big
         THEN /\ error' = TRUE
              /\ ev' = Ev("selectRejected", 0, Len(history), historyIndex)
              /\ UNCHANGED <<history, historyIndex, lastAction, nextId, ssGenerating>>
         ELSE /\ history' = <<File(nextId, big, img)>>
              /\ historyIndex' = 0
              /\ error' = FALSE
              /\ lastAction' = "none"
              /\ nextId' = nextId + 1
              /\ ssGenerating' = FALSE
              /\ ev' = Ev("select", nextId, Len(history), historyIndex)
    /\ UNCHANGED <<isLoading, batchCandidates, isBatchModalOpen,
                   edTasks, t2iPending>>
    /\ applied' = IF big THEN applied ELSE NoResult

handleRedoUnguarded ==
    /\ HasCurrent /\ ~isLoading
    /\ historyIndex' = historyIndex + 1
    /\ ev' = Ev("redo", 0, Len(history), historyIndex)
    /\ UNCHANGED <<history, isLoading, lastAction, error, batchCandidates,
                   isBatchModalOpen, edTasks, t2iPending,
                   ssGenerating, nextId>>
    /\ UNCHANGED applied

handleUndoUnguarded ==
    /\ HasCurrent /\ ~isLoading
    /\ historyIndex' = historyIndex - 1
    /\ ev' = Ev("undo", 0, Len(history), historyIndex)
    /\ UNCHANGED <<history, isLoading, lastAction, error, batchCandidates,
                   isBatchModalOpen, edTasks, t2iPending,
                   ssGenerating, nextId>>
    /\ UNCHANGED applied

\* handleUndo (button or Ctrl+Z; the key handler returns when isLoading or no image)
handleUndo ==
    /\ HasCurrent /\ ~isLoading
    /\ historyIndex' = IF historyIndex > 0 THEN historyIndex - 1 ELSE historyIndex
    /\ ev' = Ev("undo", 0, Len(history), historyIndex)
    /\ UNCHANGED <<history, isLoading, lastAction, error, batchCandidates,
                   isBatchModalOpen, edTasks, t2iPending,
                   ssGenerating, nextId>>
    /\ UNCHANGED applied

\* handleRedo (button or Ctrl+Y)
handleRedo ==
    /\ HasCurrent /\ ~isLoading
    /\ historyIndex' = IF historyIndex < Len(history) - 1
                         THEN historyIndex + 1 ELSE historyIndex
    /\ ev' = Ev("redo", 0, Len(history), historyIndex)
    /\ UNCHANGED <<history, isLoading, lastAction, error, batchCandidates,
                   isBatchModalOpen, edTasks, t2iPending,
                   ssGenerating, nextId>>
    /\ UNCHANGED applied

handleStartOverKeepsAction ==
    /\ ControlsEnabled
    /\ history' = << >>
    /\ historyIndex' = -1
    /\ ev' = Ev("startOver", 0, Len(history), historyIndex)
    /\ UNCHANGED <<isLoading, lastAction, error, batchCandidates, isBatchModalOpen,
                   edTasks, t2iPending, ssGenerating, nextId>>
    /\ UNCHANGED applied

\* handleStartOver ("new image" button, disabled while isLoading)
handleStartOver ==
    /\ ControlsEnabled
    /\ history' = << >>
    /\ historyIndex' = -1
    /\ lastAction' = "none"
    /\ ev' = Ev("startOver", 0, Len(history), historyIndex)
    /\ UNCHANGED <<isLoading, error, batchCandidates, isBatchModalOpen,
                   edTasks, t2iPending, ssGenerating, nextId>>
    /\ applied' = NoResult

\* handleFileInputChange (replace-image button).  The callback is memoised with
\* an empty dependency list, so the updateHistory it calls is the one of the
\* first render of EditorView, where history = [] and historyIndex = -1.
handleFileInputChange(big, img) ==
    /\ ControlsEnabled
    /\ nextId <= MaxFiles
    /\ IF img
         THEN /\ history' = updateHistory(<< >>, -1, File(nextId, big, img))
              /\ historyIndex' = Len(history') - 1
                        /\ lastAction' = "none"
              /\ nextId' = nextId + 1
              /\ ev' = Ev("replace", nextId, Len(history), historyIndex)
         ELSE /\ ev' = Ev("replaceRejected", 0, Len(history), historyIndex)
              /\ UNCHANGED <<history, historyIndex, lastAction, nextId>>
    /\ UNCHANGED <<isLoading, error, batchCandidates, isBatchModalOpen,
                   edTasks, t2iPending, ssGenerating>>
    /\ applied' = IF img THEN NoResult ELSE applied

\* A task in flight: what runGenerativeTask / handleApplyCrop awaits, with the
\* history and cursor of the render whose updateHistory the continuation calls.
Task(k, cnt, h, i, rg) == [kind |-> k, count |-> cnt, h |-> h, i |-> i, regen |-> rg]

\* runGenerativeTask, up to the await
runGenerativeTask(cnt, h, i, rg) ==
    /\ Cardinality(edTasks) < MaxEdTasks
    /\ isLoading' = TRUE
    /\ error' = FALSE
    /\ edTasks' = edTasks \cup {Task("gen", cnt, h, i, rg)}

\* handleApplyFilter / handleApplyAdjustment / handleApplyFusion /
\* handleApplyTexture / handleRemoveBackground / handleApplyRetouch
handleApply(type, cnt) ==
    /\ ControlsEnabled
    /\ cnt > 1 => type \in BatchTypes
    /\ lastAction' = type
    /\ runGenerativeTask(cnt, history, historyIndex, FALSE)
    /\ ev' = Ev("apply", 0, Len(history), historyIndex)
    /\ UNCHANGED <<history, historyIndex, batchCandidates, isBatchModalOpen,
                   t2iPending, ssGenerating, nextId>>
    /\ applied' = NoResult

handleRegenerateWhileLoading ==
    /\ HasCurrent /\ ~ModalShown
    /\ IF lastAction = "none" \/ historyIndex < 1
         THEN /\ ev' = Ev("regenerateNoop", 0, Len(history), historyIndex)
              /\ UNCHANGED <<historyIndex, isLoading, error, edTasks>>
         ELSE /\ historyIndex' = historyIndex - 1
              /\ runGenerativeTask(1, history, historyIndex, TRUE)
              /\ ev' = Ev("regenerate", 0, Len(history), historyIndex)
    /\ UNCHANGED <<history, lastAction, batchCandidates, isBatchModalOpen,
                   t2iPending, ssGenerating, nextId>>
    /\ UNCHANGED applied

\* handleRegenerate.  The handler is memoised on [lastAction, history,
\* historyIndex, isLoading]: the runGenerativeTask it calls belongs to a render
\* with the same history and the same historyIndex as the current ones, so the
\* continuation's updateHistory reads historyIndex, not historyIndex - 1.
handleRegenerate ==
    /\ HasCurrent /\ ~ModalShown
    /\ IF lastAction = "none" \/ historyIndex < 1 \/ isLoading
         THEN /\ ev' = Ev("regenerateNoop", 0, Len(history), historyIndex)
              /\ UNCHANGED <<historyIndex, isLoading, error, edTasks>>
         ELSE /\ historyIndex' = historyIndex - 1
              /\ runGenerativeTask(1, history, historyIndex, TRUE)
              /\ ev' = Ev("regenerate", 0, Len(history), historyIndex)
    /\ UNCHANGED <<history, lastAction, batchCandidates, isBatchModalOpen,
                   t2iPending, ssGenerating, nextId>>
    /\ UNCHANGED applied

\* handleApplyCrop, up to the await of getCroppedImg
handleApplyCrop ==
    /\ ControlsEnabled
    /\ Cardinality(edTasks) < MaxEdTasks
    /\ isLoading' = TRUE
    /\ error' = FALSE
    /\ edTasks' = edTasks \cup {Task("crop", 1, history, historyIndex, FALSE)}
    /\ ev' = Ev("applyCrop", 0, Len(history), historyIndex)
    /\ UNCHANGED <<history, historyIndex, lastAction, batchCandidates,
                   isBatchModalOpen, t2iPending, ssGenerating, nextId>>
    /\ UNCHANGED applied

\* the continuation of runGenerativeTask / handleApplyCrop: the awaited promise
\* settles.  nOk of the count calls resolved; Promise.all rejects unless all did.
TaskSettles(t, nOk) ==
    /\ t \in edTasks
    /\ edTasks' = edTasks \ {t}
    /\ isLoading' = FALSE
    /\ IF nOk < t.count
         THEN \* catch: setError
              /\ error' = TRUE
              /\ ev' = Ev(IF t.regen THEN "regenFailed"
                          ELSE IF t.count > 1 /\ nOk > 0 THEN "batchPartial"
                          ELSE "taskFailed",
                          0, Len(history), historyIndex)
              /\ UNCHANGED <<history, historyIndex, lastAction, batchCandidates,
                             isBatchModalOpen, nextId>>
         ELSE IF t.count = 1
         THEN /\ nextId <= MaxFiles
              /\ history' = updateHistory(t.h, t.i,
                                IF t.kind = "crop" THEN getCroppedImg(nextId)
                                                   ELSE dataURLtoFile(nextId))
              /\ historyIndex' = Len(history') - 1
                        /\ nextId' = nextId + 1
              /\ lastAction' = IF t.kind = "crop" THEN "none" ELSE lastAction
              /\ ev' = Ev(IF t.regen THEN "regenDone"
                          ELSE IF t.kind = "crop" THEN "cropDone" ELSE "editDone",
                          nextId, Len(history), historyIndex)
              /\ UNCHANGED <<error, batchCandidates, isBatchModalOpen>>
         ELSE /\ batchCandidates' = t.count
              /\ isBatchModalOpen' = TRUE
              /\ ev' = Ev("batchDone", 0, Len(history), historyIndex)
              /\ UNCHANGED <<history, historyIndex, lastAction, error,
                             nextId>>
    /\ UNCHANGED <<t2iPending, ssGenerating>>
    /\ applied' = IF nOk < t.count \/ t.count > 1 THEN applied
                  ELSE IF t.kind = "crop" THEN NoResult
                  ELSE [src |-> IF t.regen THEN t.h[t.i].id ELSE t.h[t.i + 1].id,
                        out |-> nextId]

\* getCroppedImg: canvas.toBlob calls back with null and the callback returns
\* without resolving; the promise handleApplyCrop awaits never settles
cropBlobIsNull(t) ==
    /\ t \in edTasks
    /\ t.kind = "crop"
    /\ edTasks' = edTasks \ {t}
    /\ ev' = Ev("cropLost", 0, Len(history), historyIndex)
    /\ UNCHANGED <<history, historyIndex, isLoading, lastAction, error,
                   batchCandidates, isBatchModalOpen, t2iPending, ssGenerating,
                   nextId, applied>>

\* handleLocalImageGenerated: the history is replaced by the one new file
handleLocalImageGenerated(op) ==
    /\ nextId <= MaxFiles
    /\ history' = <<dataURLtoFile(nextId)>>
    /\ historyIndex' = 0
    /\ error' = FALSE
    /\ lastAction' = "none"
    /\ isLoading' = FALSE
    /\ nextId' = nextId + 1
    /\ ev' = Ev(op, nextId, Len(history), historyIndex)
    /\ applied' = NoResult

\* handleBatchSelection: a candidate of the batch modal is clicked
handleBatchSelection ==
    /\ ModalShown
    /\ handleLocalImageGenerated("batchSelect")
    /\ isBatchModalOpen' = FALSE
    /\ batchCandidates' = 0
    /\ ssGenerating' = FALSE
    /\ UNCHANGED <<edTasks, t2iPending>>

\* BatchResultModal onClose
onBatchClose ==
    /\ ModalShown
    /\ isBatchModalOpen' = FALSE
    /\ ev' = Ev("batchClose", 0, Len(history), historyIndex)
    /\ UNCHANGED <<history, historyIndex, isLoading, lastAction, error,
                   batchCandidates, edTasks, t2iPending,
                   ssGenerating, nextId>>
    /\ UNCHANGED applied

\* StartScreen.handleGenerate, up to the await of generateImageFromText
startScreenGenerate ==
    /\ StartScreenShown
    /\ ~ssGenerating
    /\ t2iPending < MaxT2I
    /\ ssGenerating' = TRUE
    /\ t2iPending' = t2iPending + 1
    /\ ev' = Ev("t2iStart", 0, Len(history), historyIndex)
    /\ UNCHANGED <<history, historyIndex, isLoading, lastAction, error,
                   batchCandidates, isBatchModalOpen, edTasks, nextId>>
    /\ UNCHANGED applied

\* the continuation of StartScreen.handleGenerate (one image asked for):
\* onImageGenerated(urls[0]) is called whether or not StartScreen is still mounted
startScreenGenerateSettles(ok) ==
    /\ t2iPending > 0
    /\ t2iPending' = t2iPending - 1
    /\ ssGenerating' = FALSE
    /\ IF ok
         THEN handleLocalImageGenerated("t2iDone")
         ELSE /\ ev' = Ev("t2iFailed", 0, Len(history), historyIndex)
              /\ UNCHANGED <<history, historyIndex, error, lastAction, isLoading,
                             nextId, applied>>
    /\ UNCHANGED <<batchCandidates, isBatchModalOpen, edTasks>>

NextEditor ==
    \/ EdFrame /\ \E path \in {"select", "drop", "paste"}, big \in BOOLEAN,
                      img \in BOOLEAN : handleLocalFileSelect(path, big, img)
    \/ EdFrame /\ handleUndo
    \/ EdFrame /\ handleRedo
    \/ EdFrame /\ handleStartOver
    \/ EdFrame /\ \E big \in BOOLEAN, img \in BOOLEAN : handleFileInputChange(big, img)
    \/ EdFrame /\ \E type \in ActionTypes, cnt \in 1..MaxBatch : handleApply(type, cnt)
    \/ EdFrame /\ handleRegenerate
    \/ EdFrame /\ handleApplyCrop
    \/ EdFrame /\ \E t \in edTasks, nOk \in 0..MaxBatch :
                      nOk <= t.count /\ TaskSettles(t, nOk)
    \/ EdFrame /\ \E t \in edTasks : cropBlobIsNull(t)
    \/ EdFrame /\ handleBatchSelection
    \/ EdFrame /\ onBatchClose
    \/ EdFrame /\ startScreenGenerate
    \/ EdFrame /\ \E ok \in BOOLEAN : startScreenGenerateSettles(ok)

\* =========================================================== BeatSyncPage
\* the keys of DEFAULT_PROMPTS: the image counts the user can choose
ImageCounts == {6, 8, 10}
\* const concurrencyLimit = 3 (handleGenerate)
bsConcurrencyLimit == 3

\* [...stylePrompts.entries()]: the indexes 0 .. n-1 in order
Entries(n) == [j \in 1..n |-> j - 1]

PutAlone(m, key, value) == [k \in {key} |-> value]

\* {...prev, [key]: value}
Put(m, key, value) ==
    [k \in (DOMAIN m) \cup {key} |-> IF k = key THEN value ELSE m[k]]

EmptyMap == [k \in {} |-> "pending"]

\* a sequence without its i-th element
RemoveAt(q, i) == [j \in 1..(Len(q) - 1) |-> IF j < i THEN q[j] ELSE q[j + 1]]

\* total of a map of counters
RECURSIVE SumOver(_, _)
SumOver(f, S) ==
    IF S = {} THEN 0
    ELSE LET k == CHOOSE x \in S : TRUE IN f[k] + SumOver(f, S \ {k})

\* a run whose bookkeeping of starts and results is no longer looked at
Forgotten(r) == [r EXCEPT !.starts = [k \in DOMAIN @ |-> 0],
                         !.result = [k \in DOMAIN @ |-> "none"]]

\* the calls in flight of the runs of q
CallsOf(q) == SumOver([j \in 1..Len(q) |-> Cardinality(q[j].tasks)], 1..Len(q))

\* one run of handleGenerate: promptsQueue, the generateWithRetry promises
\* pending (index and phase), how often each index was taken off the queue,
\* and how the task of each index ended
NoRun == [queue |-> << >>, tasks |-> {}, starts |-> [k \in {} |-> 0],
          result |-> [k \in {} |-> "none"]]

NewRun(n) == [queue |-> Entries(n), tasks |-> {},
              starts |-> [k \in 0..(n - 1) |-> 0],
              result |-> [k \in 0..(n - 1) |-> "none"]]

bsProcessQueueSkips(run) ==
    IF Len(run.queue) = 0 THEN run
    ELSE [run EXCEPT
            !.queue = IF Len(run.queue) = 2 THEN << >> ELSE Tail(run.queue),
            !.tasks = @ \cup {[idx |-> Head(run.queue), phase |-> "call1"]},
            !.starts[Head(run.queue)] = @ + 1]

bsProcessQueuePops(run) ==
    IF Len(run.queue) = 0 THEN run
    ELSE [run EXCEPT
            !.queue = SubSeq(run.queue, 1, Len(run.queue) - 1),
            !.tasks = @ \cup {[idx |-> run.queue[Len(run.queue)], phase |-> "call1"]},
            !.starts[run.queue[Len(run.queue)]] = @ + 1]

\* processQueue up to its await: take the head of the queue and start it
bsProcessQueue(run) ==
    IF Len(run.queue) = 0 THEN run
    ELSE [run EXCEPT
            !.queue = Tail(run.queue),
            !.tasks = @ \cup {[idx |-> Head(run.queue), phase |-> "call1"]},
            !.starts[Head(run.queue)] = @ + 1]

bsWorkerTurnTwice(run) ==
    IF Len(run.queue) > 0 THEN bsProcessQueue(bsProcessQueue(run)) ELSE run

\* one turn of a worker: while (promptsQueue.length > 0) await processQueue()
bsWorkerTurn(run) ==
    IF Len(run.queue) > 0 THEN bsProcessQueue(run) ELSE run

\* Array(concurrencyLimit).fill(null).map(async () => ...): every worker runs
\* synchronously up to its first await
RECURSIVE bsStartWorkers(_, _)
bsStartWorkers(run, k) ==
    IF k = 0 THEN run ELSE bsStartWorkers(bsWorkerTurn(run), k - 1)

\* the effect on [generatedImages, appState, imageCount]: when every image of
\* the map has left 'pending', fail or go on to createVideo
bsAllDone(app, imgs, cnt) ==
    /\ app = "generating-images"
    /\ Cardinality(DOMAIN imgs) # 0
    /\ Cardinality(DOMAIN imgs) = cnt
    /\ \A k \in DOMAIN imgs : imgs[k] # "pending"

bsAfterEffect(app, imgs, cnt) ==
    IF bsAllDone(app, imgs, cnt)
      THEN IF \A k \in DOMAIN imgs : imgs[k] # "done"
             THEN "error" ELSE "generating-video"
      ELSE app

\* successfulImages of the effect and of handleRegenerateVideo
Successful(imgs) == {k \in DOMAIN imgs : imgs[k] = "done"}

bsEffectNoNotification(app, imgs, cnt) ==
    IF bsAllDone(app, imgs, cnt)
      THEN IF Successful(imgs) = {}
             THEN /\ bsError' = "all-failed"
                  /\ UNCHANGED <<bsNotification, bsVideo, bsVideoFrom>>
             ELSE /\ bsVideo' = "loading"
                  /\ bsVideoFrom' = Successful(imgs)
                  /\ UNCHANGED <<bsError, bsNotification>>
      ELSE UNCHANGED <<bsError, bsNotification, bsVideo, bsVideoFrom>>

\* what the same effect does besides setting appState: the all-failed error,
\* or the partial-failure notification and the call of createVideo
bsEffect(app, imgs, cnt) ==
    IF bsAllDone(app, imgs, cnt)
      THEN IF Successful(imgs) = {}
             THEN /\ bsError' = "all-failed"
                  /\ UNCHANGED <<bsNotification, bsVideo, bsVideoFrom>>
             ELSE /\ bsNotification' =
                        (bsNotification \/ Cardinality(Successful(imgs)) < cnt)
                  /\ bsVideo' = "loading"
                  /\ bsVideoFrom' = Successful(imgs)
                  /\ UNCHANGED bsError
      ELSE UNCHANGED <<bsError, bsNotification, bsVideo, bsVideoFrom>>

bsIsGenerating == bsAppState \in {"generating-images", "generating-video"}

bsRunDead(r) == r.tasks = {}

InitBeatSync ==
    /\ bsAppState = "idle"
    /\ bsUploaded = FALSE
    /\ imageCount = 6
    /\ bsImages = EmptyMap
    /\ bsRun = NoRun
    /\ bsStale = << >>
    /\ bsError = "none"
    /\ bsNotification = FALSE
    /\ bsVideo = "none"
    /\ bsVideoFrom = {}

\* the run of handleGenerate that a new upload or a new run leaves behind:
\* nothing cancels its calls
\* (of a run left behind only the outcome of each generateWithRetry promise
\* matters: its attempts are folded into one)
bsLeaveRun ==
    IF bsRunDead(bsRun) THEN bsStale
    ELSE Append(bsStale,
                [Forgotten(bsRun) EXCEPT
                    !.tasks = {[idx |-> t.idx, phase |-> "call2"] : t \in @}])

bsCanLeaveRun ==
    CallsOf(bsStale) + Cardinality(bsRun.tasks) <= MaxBackground

\* handleFileChange (the file input is never disabled), with no video
\* pipeline running
bsHandleFileChange(isImage) ==
    /\ bsVideo = "none"
    /\ IF isImage
         THEN /\ bsCanLeaveRun
              /\ bsError' = "none"
              /\ bsUploaded' = TRUE
              /\ bsAppState' = "idle"
              /\ bsImages' = EmptyMap
              /\ bsRun' = NoRun
              /\ bsStale' = bsLeaveRun
              /\ bsVideoFrom' = {}
         ELSE /\ bsError' = "invalid-file"
              /\ UNCHANGED <<bsUploaded, bsAppState, bsImages, bsRun, bsStale,
                             bsVideoFrom>>
    /\ UNCHANGED <<imageCount, bsNotification, bsVideo>>

\* setImageCount (buttons disabled while generating); the effect on
\* [imageCount] then sets stylePrompts to DEFAULT_PROMPTS[imageCount]
bsSetImageCount(n) ==
    /\ ~bsIsGenerating
    /\ n # imageCount
    /\ imageCount' = n
    /\ bsAppState' = bsAfterEffect(bsAppState, bsImages, n)
    /\ UNCHANGED <<bsUploaded, bsImages, bsRun, bsStale, bsError,
                   bsNotification, bsVideo, bsVideoFrom>>

\* handleGenerate (button disabled without an image or while generating),
\* with no video pipeline running
bsHandleGenerate ==
    /\ bsUploaded
    /\ ~bsIsGenerating
    /\ bsVideo = "none"
    /\ bsCanLeaveRun
    /\ bsAppState' = "generating-images"
    /\ bsError' = "none"
    /\ bsNotification' = FALSE
    /\ bsImages' = [k \in 0..(imageCount - 1) |-> "pending"]
    /\ bsRun' = bsStartWorkers(NewRun(imageCount), bsConcurrencyLimit)
    /\ bsStale' = bsLeaveRun
    /\ bsVideoFrom' = {}
    /\ UNCHANGED <<bsUploaded, imageCount, bsVideo>>

\* a task leaves the pool of run r with a final status; its worker takes its
\* next turn
bsRunAfterFailureEndsWorker(r, t, status) ==
    IF status = "error"
      THEN [r EXCEPT !.tasks = @ \ {t}, !.result[t.idx] = status]
      ELSE bsWorkerTurn([r EXCEPT !.tasks = @ \ {t}, !.result[t.idx] = status])

bsRunAfter(r, t, status) ==
    bsWorkerTurn([r EXCEPT !.tasks = @ \ {t}, !.result[t.idx] = status])

bsFinish(t, status) ==
    /\ bsImages' = Put(bsImages, t.idx, status)
    /\ bsRun' = bsRunAfter(bsRun, t, status)
    /\ bsAppState' = bsAfterEffect(bsAppState, bsImages', imageCount)
    /\ bsEffect(bsAppState, bsImages', imageCount)

bsRetryTwice(r, t) ==
    [r EXCEPT !.tasks = (@ \ {t}) \cup {[idx |-> t.idx, phase |-> "delay"]}]

bsRetryNoDelay(r, t) ==
    IF t.phase = "call1"
      THEN [r EXCEPT !.tasks = (@ \ {t}) \cup {[idx |-> t.idx, phase |-> "call2"]}]
      ELSE r

\* generateWithRetry, catch with retries > 0: wait one second before the
\* second call
bsRetry(r, t) ==
    IF t.phase = "call1"
      THEN [r EXCEPT !.tasks = (@ \ {t}) \cup {[idx |-> t.idx, phase |-> "delay"]}]
      ELSE r

\* generateWithRetry: the one-second timer fires and the second call is made
bsSecondCall(r, t) ==
    [r EXCEPT !.tasks = (@ \ {t}) \cup {[idx |-> t.idx, phase |-> "call2"]}]

\* generateWithRetry: a call of generateStyledImage settles
bsCallSettles(t, ok) ==
    /\ t \in bsRun.tasks
    /\ t.phase \in {"call1", "call2"}
    /\ IF ok THEN bsFinish(t, "done")
       ELSE IF bsRetry(bsRun, t) # bsRun
         THEN /\ bsRun' = bsRetry(bsRun, t)
              /\ UNCHANGED <<bsImages, bsAppState, bsError, bsNotification,
                             bsVideo, bsVideoFrom>>
         ELSE bsFinish(t, "error")
    /\ UNCHANGED <<bsUploaded, imageCount, bsStale>>

bsRetryTimer(t) ==
    /\ t \in bsRun.tasks
    /\ t.phase = "delay"
    /\ bsRun' = bsSecondCall(bsRun, t)
    /\ UNCHANGED <<bsAppState, bsUploaded, imageCount, bsImages, bsStale,
                   bsError, bsNotification, bsVideo, bsVideoFrom>>

\* the same continuations in a run left behind: they write into the map of
\* the page as it is now
bsStaleAfter(q, i, r) ==
    IF bsRunDead(r) THEN RemoveAt(q, i) ELSE [q EXCEPT ![i] = Forgotten(r)]

bsStaleFinish(i, t, status) ==
    /\ bsImages' = Put(bsImages, t.idx, status)
    /\ bsStale' = bsStaleAfter(bsStale, i, bsRunAfter(bsStale[i], t, status))
    /\ bsAppState' = bsAfterEffect(bsAppState, bsImages', imageCount)
    /\ bsEffect(bsAppState, bsImages', imageCount)

bsStaleCallSettles(i, t, ok) ==
    /\ i \in 1..Len(bsStale)
    /\ t \in bsStale[i].tasks
    /\ bsStaleFinish(i, t, IF ok THEN "done" ELSE "error")
    /\ UNCHANGED <<bsUploaded, imageCount, bsRun>>

\* createVideo: the images or the audio fail to load (catch), or the
\* recorder is started and the 20-second timeout is armed
bsVideoLoadSettles(ok) ==
    /\ bsVideo = "loading"
    /\ IF ok
         THEN /\ bsVideo' = "recording"
              /\ UNCHANGED <<bsAppState, bsError>>
         ELSE /\ bsVideo' = "none"
              /\ bsError' = "video-failed"
              /\ bsAppState' = "error"
    /\ UNCHANGED <<bsUploaded, imageCount, bsImages, bsRun, bsStale,
                   bsNotification, bsVideoFrom>>

\* drawFrame after totalDuration: recorder.stop(), which queues the stop event
bsVideoElapsed ==
    /\ bsVideo = "recording"
    /\ bsVideo' = "stopping"
    /\ UNCHANGED <<bsAppState, bsUploaded, imageCount, bsImages, bsRun,
                   bsStale, bsError, bsNotification, bsVideoFrom>>

\* the timeout handler while the recorder is recording: recorder.stop(),
\* setError, setAppState('error')
bsVideoTimeout ==
    /\ bsVideo = "recording"
    /\ bsVideo' = "stopping"
    /\ bsError' = "timeout"
    /\ bsAppState' = "error"
    /\ UNCHANGED <<bsUploaded, imageCount, bsImages, bsRun, bsStale,
                   bsNotification, bsVideoFrom>>

\* drawFrame throws: setError, setAppState('error'), recorder.stop()
bsVideoFrameError ==
    /\ bsVideo = "recording"
    /\ bsVideo' = "stopping"
    /\ bsError' = "render-failed"
    /\ bsAppState' = "error"
    /\ UNCHANGED <<bsUploaded, imageCount, bsImages, bsRun, bsStale,
                   bsNotification, bsVideoFrom>>

\* recorder.onstop: clearTimeout, setVideoUrl, setAppState('results-shown')
bsRecorderOnStop ==
    /\ bsVideo = "stopping"
    /\ bsVideo' = "none"
    /\ bsAppState' = "results-shown"
    /\ UNCHANGED <<bsUploaded, imageCount, bsImages, bsRun, bsStale,
                   bsError, bsNotification, bsVideoFrom>>

\* handleRegenerateVideo (button of the results view, disabled without a
\* successful image)
bsHandleRegenerateVideo ==
    /\ bsAppState = "results-shown"
    /\ bsVideo = "none"
    /\ Successful(bsImages) # {}
    /\ bsAppState' = "generating-video"
    /\ bsVideo' = "loading"
    /\ bsVideoFrom' = Successful(bsImages)
    /\ UNCHANGED <<bsUploaded, imageCount, bsImages, bsRun, bsStale,
                   bsError, bsNotification>>

\* the auto-dismissing notification: its five-second timer fires
bsNotificationTimer ==
    /\ bsNotification
    /\ bsNotification' = FALSE
    /\ UNCHANGED <<bsAppState, bsUploaded, imageCount, bsImages, bsRun,
                   bsStale, bsError, bsVideo, bsVideoFrom>>

\* the video pipeline and the notification timer
bsVideoStep ==
    \/ \E ok \in BOOLEAN : bsVideoLoadSettles(ok)
    \/ bsVideoElapsed
    \/ bsVideoTimeout
    \/ bsVideoFrameError
    \/ bsRecorderOnStop
    \/ bsHandleRegenerateVideo
    \/ bsNotificationTimer

\* the page when the user lets a run end before replacing the image
NextBeatSync ==
    \/ BsFrame /\ bsRunDead(bsRun) /\ \E isImage \in BOOLEAN : bsHandleFileChange(isImage)
    \/ BsFrame /\ \E n \in ImageCounts : bsSetImageCount(n)
    \/ BsFrame /\ bsHandleGenerate
    \/ BsFrame /\ \E t \in bsRun.tasks, ok \in BOOLEAN : bsCallSettles(t, ok)
    \/ BsFrame /\ \E t \in bsRun.tasks : bsRetryTimer(t)
    \/ BsFrame /\ bsVideoStep

\* the page when the user may replace the image and generate again at any
\* time, with the default image count
NextBeatSyncRestart ==
    \/ BsFrame /\ \E isImage \in BOOLEAN : bsHandleFileChange(isImage)
    \/ BsFrame /\ bsHandleGenerate
    \/ BsFrame /\ \E t \in bsRun.tasks, ok \in BOOLEAN : bsCallSettles(t, ok)
    \/ BsFrame /\ \E t \in bsRun.tasks : bsRetryTimer(t)
    \/ BsFrame /\ \E i \in 1..Len(bsStale) : \E t \in bsStale[i].tasks, ok \in BOOLEAN :
                      bsStaleCallSettles(i, t, ok)
    \/ BsFrame /\ bsVideoStep

\* ======================================================== PastForwardPage
\* DECADES.length
pfDecadeCount == 6
\* const concurrencyLimit = 2 (handleGenerateClick)
pfConcurrencyLimit == 2

\* one run of handleGenerateClick: decadesQueue, the generateSingleDecade calls
\* pending (decade index, and whether a worker loop awaits it), the worker
\* loops still running, and how often each decade was taken off the queue
pfNoRun == [queue |-> << >>, tasks |-> {}, loops |-> 0,
            starts |-> [k \in {} |-> 0], result |-> [k \in {} |-> "none"]]

\* processQueue up to its await: decadesQueue.shift(), generateSingleDecade
pfProcessQueue(run, inLoop) ==
    IF Len(run.queue) = 0 THEN run
    ELSE [run EXCEPT
            !.queue = Tail(run.queue),
            !.tasks = @ \cup {[idx |-> Head(run.queue), loop |-> inLoop]},
            !.starts[Head(run.queue)] = @ + 1]

\* const workers = Array(concurrencyLimit).fill(null).map(processQueue):
\* processQueue is called once per slot; nothing awaits these promises
RECURSIVE pfMapProcessQueue(_, _)
pfMapProcessQueue(run, k) ==
    IF k = 0 THEN run ELSE pfMapProcessQueue(pfProcessQueue(run, FALSE), k - 1)

\* one turn of a worker loop: while (decadesQueue.length > 0) await processQueue()
pfWorkerTurn(run) ==
    IF Len(run.queue) > 0 THEN pfProcessQueue(run, TRUE)
    ELSE [run EXCEPT !.loops = @ - 1]

\* workers.map(async (worker) => { while ... }): one loop per element of workers
RECURSIVE pfStartLoops(_, _)
pfStartLoops(run, k) ==
    IF k = 0 THEN run ELSE pfStartLoops(pfWorkerTurn(run), k - 1)

\* the setGeneratedImages calls of one worker turn on the run r: the loop
\* calls processQueue while the queue is not empty, and generateSingleDecade
\* first marks the decade it takes as pending
pfMarkStarted(m, r) ==
    IF Len(r.queue) > 0 THEN Put(m, Head(r.queue), "pending") ELSE m

\* generateDecadeImage of task t of run r settles: the status is written and
\* an awaiting worker loop takes its next turn
pfSettled(r, t, ok) ==
    [r EXCEPT !.tasks = @ \ {t},
              !.result[t.idx] = IF ok THEN "done" ELSE "error"]

pfRunAfter(r, t, ok) ==
    IF t.loop THEN pfWorkerTurn(pfSettled(r, t, ok)) ELSE pfSettled(r, t, ok)

pfImagesAfter(m, r, t, ok) ==
    IF t.loop
      THEN pfMarkStarted(Put(m, t.idx, IF ok THEN "done" ELSE "error"),
                         [r EXCEPT !.tasks = @ \ {t}])
      ELSE Put(m, t.idx, IF ok THEN "done" ELSE "error")

\* the last worker loop of r ends with this settlement: Promise.all resolves
pfLoopsEnd(r, t) == t.loop /\ pfRunAfter(r, t, TRUE).loops = 0

\* a run has nothing left to do
pfRunDead(r) == r.tasks = {} /\ r.loops = 0

pfNoRegen == [k \in 0..(pfDecadeCount - 1) |-> 0]

pfBackground == CallsOf(pfStale) + SumOver(pfRegen, DOMAIN pfRegen)

InitPastForward ==
    /\ pfAppState = "idle"
    /\ pfUploaded = FALSE
    /\ pfImages = EmptyMap
    /\ pfIsLoading = FALSE
    /\ pfRun = pfNoRun
    /\ pfStale = << >>
    /\ pfRegen = pfNoRegen

\* handleImageUpload (the file input is rendered in 'idle' and 'image-uploaded')
pfHandleImageUpload(isImage) ==
    /\ pfAppState \in {"idle", "image-uploaded"}
    /\ IF isImage
         THEN /\ pfUploaded' = TRUE
              /\ pfAppState' = "image-uploaded"
         ELSE UNCHANGED <<pfUploaded, pfAppState>>
    /\ UNCHANGED <<pfImages, pfIsLoading, pfRun, pfStale, pfRegen>>

\* handleGenerateClick up to its await (button rendered in 'image-uploaded')
pfHandleGenerateClick ==
    /\ pfAppState = "image-uploaded"
    /\ pfUploaded
    /\ pfIsLoading' = TRUE
    /\ pfAppState' = "generating"
    /\ pfImages' = [k \in 0..(pfDecadeCount - 1) |-> "pending"]
    /\ pfRun' = pfStartLoops(
                   pfMapProcessQueue(
                      [queue |-> Entries(pfDecadeCount), tasks |-> {},
                       loops |-> pfConcurrencyLimit,
                       starts |-> [k \in 0..(pfDecadeCount - 1) |-> 0],
                       result |-> [k \in 0..(pfDecadeCount - 1) |-> "none"]],
                      pfConcurrencyLimit),
                   pfConcurrencyLimit)
    /\ UNCHANGED <<pfUploaded, pfStale, pfRegen>>

\* generateSingleDecade of the latest run: generateDecadeImage settles.  When
\* the last loop ends, handleGenerateClick reports the results.
pfTaskSettles(t, ok) ==
    /\ t \in pfRun.tasks
    /\ pfImages' = pfImagesAfter(pfImages, pfRun, t, ok)
    /\ pfRun' = pfRunAfter(pfRun, t, ok)
    /\ IF pfLoopsEnd(pfRun, t)
         THEN /\ pfIsLoading' = FALSE
              /\ pfAppState' = "results-shown"
         ELSE UNCHANGED <<pfIsLoading, pfAppState>>
    /\ UNCHANGED <<pfUploaded, pfStale, pfRegen>>

\* the same continuation in a run that resetState left behind: its closures
\* still hold the photo and the setters of the page
pfStaleTaskSettles(i, t, ok) ==
    /\ i \in 1..Len(pfStale)
    /\ t \in pfStale[i].tasks
    /\ pfImages' = pfImagesAfter(pfImages, pfStale[i], t, ok)
    /\ pfStale' = IF pfRunDead(pfRunAfter(pfStale[i], t, ok))
                    THEN RemoveAt(pfStale, i)
                    ELSE [pfStale EXCEPT
                            ![i] = Forgotten(pfRunAfter(pfStale[i], t, ok))]
    /\ IF pfLoopsEnd(pfStale[i], t)
         THEN /\ pfIsLoading' = FALSE
              /\ pfAppState' = "results-shown"
         ELSE UNCHANGED <<pfIsLoading, pfAppState>>
    /\ UNCHANGED <<pfUploaded, pfRun, pfRegen>>

\* resetState ("start over", rendered in 'generating' and 'results-shown'):
\* nothing cancels the calls of the run, which goes on behind the page
pfResetState ==
    /\ pfAppState \in {"generating", "results-shown"}
    /\ pfBackground + Cardinality(pfRun.tasks) <= MaxBackground
    /\ pfAppState' = "idle"
    /\ pfUploaded' = FALSE
    /\ pfImages' = EmptyMap
    /\ pfIsLoading' = FALSE
    /\ pfRun' = pfNoRun
    /\ pfStale' = IF pfRunDead(pfRun) THEN pfStale
                                      ELSE Append(pfStale, Forgotten(pfRun))
    /\ UNCHANGED pfRegen

\* PolaroidCard: the card of a finished decade offers to regenerate it
CardOffersRegenerate(d) ==
    /\ d \in DOMAIN pfImages
    /\ pfImages[d] \in {"done", "error"}

\* onRegenerate={() => generateSingleDecade(decade)} up to its await
pfRegenerate(d) ==
    /\ pfAppState \in {"generating", "results-shown"}
    /\ CardOffersRegenerate(d)
    /\ pfUploaded
    /\ pfBackground < MaxBackground
    /\ pfImages' = Put(pfImages, d, "pending")
    /\ pfRegen' = [pfRegen EXCEPT ![d] = @ + 1]
    /\ UNCHANGED <<pfAppState, pfUploaded, pfIsLoading, pfRun, pfStale>>

\* generateSingleDecade called by a card: generateDecadeImage settles
pfRegenSettles(d, ok) ==
    /\ pfRegen[d] > 0
    /\ pfImages' = Put(pfImages, d, IF ok THEN "done" ELSE "error")
    /\ pfRegen' = [pfRegen EXCEPT ![d] = @ - 1]
    /\ pfRun' = IF d \in DOMAIN pfRun.result
                  THEN [pfRun EXCEPT !.result[d] = IF ok THEN "done" ELSE "error"]
                  ELSE pfRun
    /\ UNCHANGED <<pfAppState, pfUploaded, pfIsLoading, pfStale>>

NextPastForward ==
    \/ PfFrame /\ \E isImage \in BOOLEAN : pfHandleImageUpload(isImage)
    \/ PfFrame /\ pfHandleGenerateClick
    \/ PfFrame /\ \E t \in pfRun.tasks, ok \in BOOLEAN : pfTaskSettles(t, ok)
    \/ PfFrame /\ \E i \in 1..Len(pfStale) : \E t \in pfStale[i].tasks, ok \in BOOLEAN :
                      pfStaleTaskSettles(i, t, ok)
    \/ PfFrame /\ pfResetState
    \/ PfFrame /\ \E d \in 0..(pfDecadeCount - 1) : pfRegenerate(d)
    \/ PfFrame /\ \E d \in 0..(pfDecadeCount - 1), ok \in BOOLEAN : pfRegenSettles(d, ok)

\* ============================================== API settings and client
\* JavaScript values: null, undefined, or a string (a sequence of characters)
Null == [kind |-> "null", v |-> << >>]
Undefined == [kind |-> "undefined", v |-> << >>]
Str(s) == [kind |-> "string", v |-> s]
\* a value in a condition: null, undefined and '' are falsy
Truthy(x) == x.kind = "string" /\ x.v # << >>

RECURSIVE trimStart(_)
trimStart(s) == IF s # << >> /\ Head(s) = " " THEN trimStart(Tail(s)) ELSE s

RECURSIVE trimEnd(_)
trimEnd(s) ==
    IF s # << >> /\ s[Len(s)] = " " THEN trimEnd(SubSeq(s, 1, Len(s) - 1)) ELSE s

\* String.prototype.trim
trim(s) == trimEnd(trimStart(s))

\* what the user can type into the settings fields or have in the storage
KeyInputs == {<< >>, <<" ">>, <<"k">>, <<"j">>}
UrlInputs == {<< >>, <<"u">>, <<"u", "/">>, <<" ", "u", "/", " ">>, <<"v">>, <<"/">>}
\* values of ?key= and ?server= (null: the parameter is absent)
KeyParams == {Null, Str(<< >>), Str(<<"p">>)}
ServerParams == {Null, Str(<< >>), Str(<<"s", "/">>)}

\* getApiKey: the key of localStorage as stored when it is not blank, else null
getApiKey(stored) ==
    IF Truthy(stored) /\ trim(stored.v) # << >> THEN stored ELSE Null

\* getBaseUrl: the stored URL trimmed, without one trailing slash; undefined
\* when nothing or a blank is stored
getBaseUrl(stored) ==
    IF Truthy(stored) /\ trim(stored.v) # << >>
      THEN LET url == trim(stored.v)
           IN  Str(IF url[Len(url)] = "/" THEN SubSeq(url, 1, Len(url) - 1) ELSE url)
      ELSE Undefined

\* aiInstance = null
NoClient == [live |-> FALSE, id |-> 0, apiKey |-> Null, baseUrl |-> Null,
             from |-> <<Null, Null>>]

\* new GoogleGenAI(config): config.apiKey, and config.httpOptions.baseUrl when
\* baseUrl is truthy; from keeps the pair the client was built with
GoogleGenAI(n, apiKey, baseUrl) ==
    [live |-> TRUE, id |-> n, apiKey |-> apiKey,
     baseUrl |-> IF Truthy(baseUrl) THEN baseUrl ELSE Undefined,
     from |-> <<apiKey, baseUrl>>]

\* what the last call of getGoogleAI gave its caller
\* (reused: the client is the cached one)
NoCall == [kind |-> "none", client |-> NoClient, reused |-> FALSE]
Returned(c, r) == [kind |-> "client", client |-> c, reused |-> r]
Threw(k) == [kind |-> k, client |-> NoClient, reused |-> FALSE]

\* the variables at rest, as in the behaviours of the other pages
SettingsAtRest ==
    /\ lsApiKey = Null
    /\ lsBaseUrl = Null
    /\ envApiKey = Null
    /\ location = [key |-> Null, server |-> Null, other |-> FALSE,
                   pathname |-> "/", hash |-> ""]
    /\ booted = FALSE
    /\ aiInstance = NoClient
    /\ lastUsedApiKey = Null
    /\ lastUsedBaseUrl = Null
    /\ aiResult = NoCall
    /\ nextClient = 1

\* the page is opened: what localStorage holds from earlier visits, the
\* build-time API_KEY, and the URL
InitSettings ==
    /\ lsApiKey \in {Null} \cup {Str(k) : k \in KeyInputs}
    /\ lsBaseUrl \in {Null} \cup {Str(u) : u \in UrlInputs}
    /\ envApiKey \in {Null, Str(<<"e">>)}
    /\ location \in [key : KeyParams, server : ServerParams, other : BOOLEAN,
                     pathname : {"/aice"}, hash : {"", "#top"}]
    /\ booted = FALSE
    /\ aiInstance = NoClient
    /\ lastUsedApiKey = Null
    /\ lastUsedBaseUrl = Null
    /\ aiResult = NoCall
    /\ nextClient = 1

appMountEffectKeepsUrl ==
    /\ ~booted
    /\ booted' = TRUE
    /\ lsApiKey' = IF Truthy(location.key) THEN location.key ELSE lsApiKey
    /\ lsBaseUrl' = IF Truthy(location.server) THEN location.server ELSE lsBaseUrl
    /\ UNCHANGED <<location, envApiKey, aiInstance, lastUsedApiKey,
                   lastUsedBaseUrl, aiResult, nextClient>>

\* App's effect on mount: import ?key= and ?server=, then replaceState to
\* pathname + hash
appMountEffect ==
    /\ ~booted
    /\ booted' = TRUE
    /\ LET urlKey == location.key
           urlServer == location.server
       IN  IF Truthy(urlKey) \/ Truthy(urlServer)
             THEN /\ lsApiKey' = IF Truthy(urlKey) THEN urlKey ELSE lsApiKey
                  /\ lsBaseUrl' = IF Truthy(urlServer) THEN urlServer ELSE lsBaseUrl
                  /\ location' = [location EXCEPT !.key = Null, !.server = Null,
                                                  !.other = FALSE]
             ELSE UNCHANGED <<lsApiKey, lsBaseUrl, location>>
    /\ UNCHANGED <<envApiKey, aiInstance, lastUsedApiKey, lastUsedBaseUrl,
                   aiResult, nextClient>>

\* SettingsModal.handleSave: both fields are stored as typed
handleSave(apiKey, baseUrl) ==
    /\ booted
    /\ lsApiKey' = Str(apiKey)
    /\ lsBaseUrl' = Str(baseUrl)
    /\ UNCHANGED <<envApiKey, location, booted, aiInstance, lastUsedApiKey,
                   lastUsedBaseUrl, aiResult, nextClient>>

\* SettingsModal.handleClear
handleClear ==
    /\ booted
    /\ lsApiKey' = Null
    /\ lsBaseUrl' = Null
    /\ UNCHANGED <<envApiKey, location, booted, aiInstance, lastUsedApiKey,
                   lastUsedBaseUrl, aiResult, nextClient>>

mustRebuildKeyOnly(apiKey, baseUrl) ==
    \/ ~aiInstance.live
    \/ apiKey # lastUsedApiKey

\* the test that decides whether getGoogleAI builds a new client
mustRebuild(apiKey, baseUrl) ==
    \/ ~aiInstance.live
    \/ apiKey # lastUsedApiKey
    \/ baseUrl # lastUsedBaseUrl

\* getGoogleAI, called by every generative function; ctorOk: the GoogleGenAI
\* constructor returns (else it throws and the catch invalidates the cache)
getGoogleAI(ctorOk) ==
    /\ booted
    /\ LET apiKey == getApiKey(lsApiKey)
           baseUrl == getBaseUrl(lsBaseUrl)
       IN  IF ~Truthy(apiKey)
             THEN /\ ctorOk
                  /\ aiResult' = Threw("noKey")
                  /\ UNCHANGED <<aiInstance, lastUsedApiKey, lastUsedBaseUrl,
                                 nextClient>>
           ELSE IF mustRebuild(apiKey, baseUrl)
             THEN IF ctorOk
                    THEN /\ nextClient <= MaxClients
                         /\ aiInstance' = GoogleGenAI(nextClient, apiKey, baseUrl)
                         /\ lastUsedApiKey' = apiKey
                         /\ lastUsedBaseUrl' = baseUrl
                         /\ nextClient' = nextClient + 1
                         /\ aiResult' = Returned(aiInstance', FALSE)
                    ELSE /\ aiInstance' = NoClient
                         /\ lastUsedApiKey' = Null
                         /\ lastUsedBaseUrl' = Null
                         /\ aiResult' = Threw("initFailed")
                         /\ UNCHANGED nextClient
           ELSE /\ ctorOk
                /\ aiResult' = Returned(aiInstance, TRUE)
                /\ UNCHANGED <<aiInstance, lastUsedApiKey, lastUsedBaseUrl,
                               nextClient>>
    /\ UNCHANGED <<lsApiKey, lsBaseUrl, envApiKey, location, booted>>

NextSettings ==
    \/ SvFrame /\ appMountEffect
    \/ SvFrame /\ \E apiKey \in KeyInputs, baseUrl \in UrlInputs :
                      handleSave(apiKey, baseUrl)
    \/ SvFrame /\ handleClear
    \/ SvFrame /\ \E ctorOk \in BOOLEAN : getGoogleAI(ctorOk)

\* ========================================================= specifications
\* ================================== image generation with fallback prompt
\* an error message is a sequence of text fragments; message.includes(pat)
Includes(msg, pat) ==
    \E i \in 1..(Len(msg) - Len(pat) + 1) : SubSeq(msg, i, i + Len(pat) - 1) = pat

\* the messages callImageEditingModel throws itself
MsgText == <<"Model responded with text", " instead of an image",
             ". The prompt may have been blocked.">>
MsgInvalid == <<"AI did not return a valid result", ".">>
MsgNoImage == <<"AI returned no image">>
\* getGoogleAI without a key
MsgNoKey == <<"API key is not set">>
\* messages of errors the SDK call rejects with; the last one is a JSON body
ApiErrors == {<<"failed to fetch">>, <<"api key not valid">>,
              <<"{error:{message:", "quota exceeded", "}}">>}

\* handleApiError(error, action): the message of the Error it returns
handleApiError(e, action) ==
    IF Len(e) = 3 /\ e[1] = "{error:{message:"
      THEN <<"error during ", action, ": ", e[2]>>
    ELSE IF Includes(e, <<"api key not valid">>)
      THEN <<"check your API key and Base URL">>
    ELSE IF Includes(e, <<"failed to fetch">>)
      THEN <<"communication with the AI service failed">>
    ELSE <<"error during ", action, ": ">> \o e

\* what a call of callImageEditingModel meets: the client cannot be built, the
\* SDK call rejects, or it answers with an image part, with text only, with
\* no candidate or parts, or with parts that hold neither
Outcomes ==
    {[kind |-> k, e |-> << >>] : k \in {"image", "text", "invalid", "other", "noClient"}}
    \cup {[kind |-> "rejects", e |-> e] : e \in ApiErrors}

\* the error raised inside the try block of callImageEditingModel
raised(o) ==
    CASE o.kind = "text" -> MsgText
      [] o.kind = "invalid" -> MsgInvalid
      [] o.kind = "other" -> MsgNoImage
      [] o.kind = "noClient" -> MsgNoKey
      [] OTHER -> o.e

\* callImageEditingModel(parts, action) with outcome o: the message of the
\* error it throws (its catch block); << >> when it returns the image
callImageEditingModel(o, action) ==
    IF o.kind = "image" THEN << >>
    ELSE IF \/ Includes(raised(o), <<"Model responded with text">>)
            \/ Includes(raised(o), <<"AI did not return a valid result">>)
      THEN raised(o)
    ELSE handleApiError(raised(o), action)

GenFns == {"filter", "style", "adjust", "texture", "decade"}
\* DECADES (two of them)
Decades == {"1950s", "2000s"}
\* the prompts the functions are called with: the user's text, and for
\* generateDecadeImage the prompt generateSingleDecade builds from a decade
UserPrompts == {<<"warm tones">>, <<"Model responded with text", " instead of an image">>}
DecadePrompts == {<<"Reimagine the person in the style of the ", d, ".">> : d \in Decades}
PromptsOf(fn) == IF fn = "decade" THEN DecadePrompts ELSE UserPrompts

\* prompt.match(/(\d{4}s)/): the first decade in the prompt, "none" for null
extractDecade(prompt) ==
    IF \E i \in 1..Len(prompt) : prompt[i] \in Decades
      THEN prompt[CHOOSE i \in 1..Len(prompt) :
                     /\ prompt[i] \in Decades
                     /\ \A j \in 1..(i - 1) : prompt[j] \notin Decades]
      ELSE "none"

getFallbackPrompt(decade) ==
    <<"Create a photograph of the person as if they were living in the ", decade, ".">>

Prefix(fn) ==
    CASE fn = "filter" -> <<"Apply this filter: ">>
      [] fn = "style" -> <<"Apply this artistic style: ">>
      [] fn = "adjust" -> <<"Apply this adjustment: ">>
      [] fn = "texture" -> <<"Apply this texture: ">>
      [] OTHER -> << >>

\* the text part of the first attempt and of the fallback attempt
primaryText(fn, prompt) == Prefix(fn) \o prompt
fallbackText(fn, prompt) ==
    IF fn = "decade" THEN getFallbackPrompt(extractDecade(prompt)) ELSE prompt

\* the action label passed to callImageEditingModel
actionOf(fn, prompt, fallback) ==
    <<fn>> \o (IF fn = "decade" THEN <<extractDecade(prompt)>> ELSE << >>)
           \o (IF fallback THEN <<" (fallback)">> ELSE << >>)

tryFallbackAlways(fn, prompt, e) == TRUE

\* the catch block of the functions: whether the fallback attempt is made
tryFallback(fn, prompt, e) ==
    /\ Includes(e, <<"Model responded with text", " instead of an image">>)
    /\ fn = "decade" => extractDecade(prompt) # "none"

GenAtRest ==
    /\ genFn = "none"
    /\ genPrompt = << >>
    /\ genPhase = "idle"
    /\ genCalls = << >>
    /\ genError = << >>

\* a generate function is called; fileToGenerativePart (for a decade, the
\* match of the data URL) may fail before any call of the model
genInvoke(fn, prompt, partOk) ==
    /\ genPhase = "idle"
    /\ genFn' = fn
    /\ genPrompt' = prompt
    /\ genCalls' = << >>
    /\ IF partOk
         THEN genPhase' = "first" /\ genError' = << >>
         ELSE genPhase' = "threw" /\ genError' = <<"Failed to read file.">>

\* the first callImageEditingModel settles
genFirstSettles(o) ==
    /\ genPhase = "first"
    /\ genCalls' = Append(genCalls, [text |-> primaryText(genFn, genPrompt),
                                     action |-> actionOf(genFn, genPrompt, FALSE),
                                     o |-> o])
    /\ LET e == callImageEditingModel(o, actionOf(genFn, genPrompt, FALSE))
       IN  /\ genError' = e
           /\ genPhase' = IF o.kind = "image" THEN "returned"
                          ELSE IF tryFallback(genFn, genPrompt, e) THEN "second"
                          ELSE "threw"
    /\ UNCHANGED <<genFn, genPrompt>>

\* the fallback callImageEditingModel settles: its result is the function's
genSecondSettles(o) ==
    /\ genPhase = "second"
    /\ genCalls' = Append(genCalls, [text |-> fallbackText(genFn, genPrompt),
                                     action |-> actionOf(genFn, genPrompt, TRUE),
                                     o |-> o])
    /\ genError' = callImageEditingModel(o, actionOf(genFn, genPrompt, TRUE))
    /\ genPhase' = IF o.kind = "image" THEN "returned" ELSE "threw"
    /\ UNCHANGED <<genFn, genPrompt>>

\* the caller has taken the result; the next invocation can start
genDone ==
    /\ genPhase \in {"returned", "threw"}
    /\ genFn' = "none"
    /\ genPrompt' = << >>
    /\ genPhase' = "idle"
    /\ genCalls' = << >>
    /\ genError' = << >>

NextGen ==
    \/ GenFrame /\ \E fn \in GenFns : \E prompt \in PromptsOf(fn), partOk \in BOOLEAN :
                       genInvoke(fn, prompt, partOk)
    \/ GenFrame /\ \E o \in Outcomes : genFirstSettles(o)
    \/ GenFrame /\ \E o \in Outcomes : genSecondSettles(o)
    \/ GenFrame /\ genDone

\* ===================================== BeatSync: the images of the video
\* the image count of the batch (the smallest key of DEFAULT_PROMPTS)
voImageCount == 6

\* the elements of the set S of numbers as an ascending sequence
RECURSIVE Ascending(_)
Ascending(S) ==
    IF S = {} THEN << >>
    ELSE LET m == CHOOSE x \in S : \A y \in S : x <= y
         IN  <<m>> \o Ascending(S \ {m})

\* the own keys of an object in the order Object.values, Object.keys and the
\* spread visit them: integer keys ascending, whatever their creation order
OwnKeys(o) == Ascending({o.keys[j] : j \in 1..Len(o.keys)})

\* {...prev, [index]: value}: a new object with the properties of prev in
\* the order the spread visits them, then index
SpreadPut(o, index, value) ==
    [keys |-> IF index \in DOMAIN o.st THEN OwnKeys(o) ELSE Append(OwnKeys(o), index),
     st |-> Put(o.st, index, value)]

\* Object.values(generatedImages), each value with its index
ObjectValues(o) == [j \in 1..Len(OwnKeys(o)) |-> [idx |-> OwnKeys(o)[j],
                                                   status |-> o.st[OwnKeys(o)[j]]]]

IsDone(img) == img.status = "done"

\* the indexes whose task has completed successfully, in completion order
successfulImagesAsCompleted(o) ==
    SelectSeq(completionOrder', LAMBDA k : o.st[k] = "done")

\* Object.values(generatedImages).filter(img => img.status === 'done' &&
\* img.url).map(img => img.url): an image is named by its index
successfulImages(o) ==
    LET done == SelectSeq(ObjectValues(o), IsDone)
    IN  [j \in 1..Len(done) |-> done[j].idx]

\* initialImages of handleGenerate: the keys 0 .. imageCount - 1, all pending
initialImages ==
    [keys |-> Entries(voImageCount),
     st |-> [k \in 0..(voImageCount - 1) |-> "pending"]]

VideoListAtRest ==
    /\ generatedImages = [keys |-> << >>, st |-> EmptyMap]
    /\ completionOrder = << >>
    /\ createVideoArg = << >>

\* handleGenerate up to its await
voHandleGenerate ==
    /\ generatedImages.keys = << >>
    /\ generatedImages' = initialImages
    /\ completionOrder' = << >>
    /\ createVideoArg' = << >>

\* the task of style index settles (the pool has started the first
\* concurrencyLimit entries of the queue and one more per completion), and
\* the effect on generatedImages runs: when no image is pending and one is
\* done, createVideo is called with the successful images
voTaskSettles(index, ok) ==
    /\ index \in DOMAIN generatedImages.st
    /\ generatedImages.st[index] = "pending"
    /\ index < bsConcurrencyLimit + Len(completionOrder)
    /\ generatedImages' = SpreadPut(generatedImages, index,
                                    IF ok THEN "done" ELSE "error")
    /\ completionOrder' = Append(completionOrder, index)
    /\ createVideoArg' =
          IF /\ Len(ObjectValues(generatedImages')) = voImageCount
             /\ \A k \in DOMAIN generatedImages'.st : generatedImages'.st[k] # "pending"
            THEN successfulImages(generatedImages')
            ELSE createVideoArg

\* handleFileChange after the batch has ended: setGeneratedImages({})
voReset ==
    /\ Len(completionOrder) = voImageCount
    /\ generatedImages' = [keys |-> << >>, st |-> EmptyMap]
    /\ completionOrder' = << >>
    /\ createVideoArg' = << >>

NextVideoList ==
    \/ VoFrame /\ voHandleGenerate
    \/ VoFrame /\ \E index \in 0..(voImageCount - 1), ok \in BOOLEAN :
                      voTaskSettles(index, ok)
    \/ VoFrame /\ voReset

\* ================================================ App: views and templates
\* type View
Views == {"editor", "past-forward", "template-library", "template-display"}
\* the views the header navigates to
HeaderViews == {"editor", "past-forward", "template-library"}
\* the ids of templates.json, and the ids a URL hash can carry
TemplateIds == {"t1"}
HashIds == TemplateIds \cup {"zz"}
\* template.prompt
PromptOf(id) == <<"prompt of ", id>>

NoLoad == [stage |-> "none", id |-> "none"]

AppAtRest ==
    /\ hash = "none"
    /\ selectedTemplate = "none"
    /\ isTemplateLoading = FALSE
    /\ initialAdjustPrompt = << >>
    /\ tplLoad = NoLoad
    /\ tplStale = << >>

\* App renders: MainContent is a component declared in App's body, so each
\* render of App yields a new component type and React unmounts the
\* EditorView below it and mounts a new one.  The new instance starts from
\* its useState initial values and runs its mount effect on the hash h; the
\* promises of the old instance settle into an unmounted component.
remountEditorView(h) ==
    /\ Len(tplStale) + (IF tplLoad.stage = "none" THEN 0 ELSE 1) <= MaxStaleLoads
    /\ history' = << >>
    /\ historyIndex' = -1
    /\ isLoading' = FALSE
    /\ lastAction' = "none"
    /\ error' = FALSE
    /\ batchCandidates' = 0
    /\ isBatchModalOpen' = FALSE
    /\ edTasks' = {}
    /\ t2iPending' = 0
    /\ ssGenerating' = FALSE
    /\ applied' = NoResult
    /\ initialAdjustPrompt' = << >>
    /\ isTemplateLoading' = (h # "none")
    /\ tplLoad' = IF h # "none" THEN [stage |-> "list", id |-> h] ELSE NoLoad
    /\ tplStale' = IF tplLoad.stage = "none" THEN tplStale
                                             ELSE Append(tplStale, tplLoad.id)
    /\ UNCHANGED nextId

\* Header onViewChange(view)
onViewChange(view) ==
    /\ view # mounted
    /\ mounted' = view
    /\ selectedTemplate' = "none"
    /\ remountEditorView(hash)
    /\ ev' = Ev("viewChange", 0, Len(history), historyIndex)
    /\ UNCHANGED hash

\* handleTemplateSelect(template), from the start screen or the library
handleTemplateSelect(t) ==
    /\ \/ mounted = "editor" /\ StartScreenShown /\ ~isTemplateLoading
       \/ mounted = "template-library"
    /\ mounted' = "template-display"
    /\ selectedTemplate' = t
    /\ remountEditorView(hash)
    /\ ev' = Ev("templateSelect", 0, Len(history), historyIndex)
    /\ UNCHANGED hash

\* handleUseTemplateInEditor(templateId), from the template display page
handleUseTemplateInEditor ==
    /\ mounted = "template-display"
    /\ selectedTemplate # "none"
    /\ hash' = selectedTemplate
    /\ selectedTemplate' = "none"
    /\ mounted' = "editor"
    /\ remountEditorView(selectedTemplate)
    /\ ev' = Ev("useTemplate", 0, Len(history), historyIndex)

\* loadTemplateFromId: fetch('./templates.json') settles; ok stands for a
\* response that is ok and parses.  An id that is not in the list, a failed
\* response and a rejection all end in the catch block.
tplListSettles(ok) ==
    /\ tplLoad.stage = "list"
    /\ IF ok /\ tplLoad.id \in TemplateIds
         THEN /\ tplLoad' = [tplLoad EXCEPT !.stage = "image"]
              /\ ev' = Ev("tplList", 0, Len(history), historyIndex)
              /\ UNCHANGED <<error, isTemplateLoading>>
         ELSE /\ tplLoad' = NoLoad
              /\ error' = TRUE
              /\ isTemplateLoading' = FALSE
              /\ ev' = Ev("tplFailed", 0, Len(history), historyIndex)
    /\ UNCHANGED <<history, historyIndex, isLoading, lastAction, batchCandidates,
                   isBatchModalOpen, edTasks, t2iPending, ssGenerating, nextId,
                   applied, hash, selectedTemplate, initialAdjustPrompt, tplStale,
                   mounted>>

tplImageSettlesKeepsHash(ok) ==
    /\ tplLoad.stage = "image"
    /\ ok => nextId <= MaxFiles
    /\ tplLoad' = NoLoad
    /\ isTemplateLoading' = FALSE
    /\ IF ok
         THEN /\ history' = <<File(nextId, FALSE, TRUE)>>
              /\ historyIndex' = 0
              /\ initialAdjustPrompt' = PromptOf(tplLoad.id)
              /\ nextId' = nextId + 1
              /\ ev' = Ev("tplLoaded", nextId, Len(history), historyIndex)
              /\ UNCHANGED <<error, hash>>
         ELSE /\ error' = TRUE
              /\ ev' = Ev("tplFailed", 0, Len(history), historyIndex)
              /\ UNCHANGED <<history, historyIndex, initialAdjustPrompt, hash, nextId>>
    /\ UNCHANGED <<isLoading, lastAction, batchCandidates, isBatchModalOpen,
                   edTasks, t2iPending, ssGenerating, applied, selectedTemplate,
                   tplStale, mounted>>

\* loadTemplateFromId: fetch(template.baseUrl) settles.  On success the file
\* becomes the history, the prompt is preset and the hash is set to '#'.
tplImageSettles(ok) ==
    /\ tplLoad.stage = "image"
    /\ ok => nextId <= MaxFiles
    /\ tplLoad' = NoLoad
    /\ isTemplateLoading' = FALSE
    /\ IF ok
         THEN /\ history' = <<File(nextId, FALSE, TRUE)>>
              /\ historyIndex' = 0
              /\ initialAdjustPrompt' = PromptOf(tplLoad.id)
              /\ hash' = "none"
              /\ nextId' = nextId + 1
              /\ ev' = Ev("tplLoaded", nextId, Len(history), historyIndex)
              /\ UNCHANGED error
         ELSE /\ error' = TRUE
              /\ ev' = Ev("tplFailed", 0, Len(history), historyIndex)
              /\ UNCHANGED <<history, historyIndex, initialAdjustPrompt, hash, nextId>>
    /\ UNCHANGED <<isLoading, lastAction, batchCandidates, isBatchModalOpen,
                   edTasks, t2iPending, ssGenerating, applied, selectedTemplate,
                   tplStale, mounted>>

\* loadTemplateFromId of an unmounted instance ends: its setState calls do
\* nothing, but on success it still sets window.location.hash = '#'
tplStaleSettles(i, ok) ==
    /\ i \in 1..Len(tplStale)
    /\ ok => tplStale[i] \in TemplateIds
    /\ tplStale' = RemoveAt(tplStale, i)
    /\ hash' = IF ok THEN "none" ELSE hash
    /\ ev' = Ev("tplStale", 0, Len(history), historyIndex)
    /\ UNCHANGED <<history, historyIndex, isLoading, lastAction, error,
                   batchCandidates, isBatchModalOpen, edTasks, t2iPending,
                   ssGenerating, nextId, applied, selectedTemplate,
                   isTemplateLoading, initialAdjustPrompt, tplLoad, mounted>>

\* while isTemplateLoading the editor renders the spinner alone
NextApp ==
    \/ ~isTemplateLoading /\ NextEditor
    \/ AppFrame /\ \E view \in HeaderViews : onViewChange(view)
    \/ AppFrame /\ \E t \in TemplateIds : handleTemplateSelect(t)
    \/ AppFrame /\ handleUseTemplateInEditor
    \/ AppFrame /\ \E ok \in BOOLEAN : tplListSettles(ok)
    \/ AppFrame /\ \E ok \in BOOLEAN : tplImageSettles(ok)
    \/ AppFrame /\ \E i \in 1..Len(tplStale), ok \in BOOLEAN : tplStaleSettles(i, ok)

\* the page is opened with or without a templateId in the hash; the first
\* EditorView has run its mount effect
InitApp ==
    /\ InitEditor /\ InitBeatSync /\ InitPastForward /\ SettingsAtRest /\ GenAtRest
    /\ VideoListAtRest
    /\ mounted = "editor"
    /\ hash \in {"none"} \cup HashIds
    /\ selectedTemplate = "none"
    /\ initialAdjustPrompt = << >>
    /\ isTemplateLoading = (hash # "none")
    /\ tplLoad = IF hash # "none" THEN [stage |-> "list", id |-> hash] ELSE NoLoad
    /\ tplStale = << >>

InitAll ==
    /\ InitEditor /\ InitBeatSync /\ InitPastForward /\ SettingsAtRest
    /\ GenAtRest /\ AppAtRest /\ VideoListAtRest

InitEd == InitAll /\ mounted = "editor"
InitBs == InitAll /\ mounted = "beat-sync"
InitPf == InitAll /\ mounted = "past-forward"
InitBatch == InitAll /\ mounted \in {"beat-sync", "past-forward"}

InitSv ==
    /\ InitEditor /\ InitBeatSync /\ InitPastForward /\ InitSettings
    /\ GenAtRest /\ AppAtRest /\ VideoListAtRest
    /\ mounted = "settings"

SpecEditor == InitEd /\ [][NextEditor]_vars

SpecSettings == InitSv /\ [][NextSettings]_vars

InitGen == InitAll /\ mounted = "service"

SpecGen == InitGen /\ [][NextGen]_vars

SpecApp == InitApp /\ [][NextApp]_vars

InitVideoList == InitAll /\ mounted = "video-list"

SpecVideoList == InitVideoList /\ [][NextVideoList]_vars

\* App with every fetch of a template load settling in the end, and no user
\* who keeps a load from ever finishing by switching views for ever
SpecAppLive ==
    /\ InitApp /\ [][NextApp]_vars
    /\ WF_vars(AppFrame /\ \E ok \in BOOLEAN : tplListSettles(ok))
    /\ SF_vars(AppFrame /\ \E ok \in BOOLEAN : tplImageSettles(ok))

\* the editor with every promise that can settle settling in the end: a call
\* of the service answers or fails, the event loop runs the continuation
SpecEditorLive ==
    /\ InitEd /\ [][NextEditor]_vars
    /\ WF_vars(EdFrame /\ \E t \in edTasks, nOk \in 0..MaxBatch :
                              nOk <= t.count /\ TaskSettles(t, nOk))
    /\ WF_vars(EdFrame /\ \E ok \in BOOLEAN : startScreenGenerateSettles(ok))

SpecBeatSync == InitBs /\ [][NextBeatSync]_vars

SpecBeatSyncRestart == InitBs /\ [][NextBeatSyncRestart]_vars

SpecPastForward == InitPf /\ [][NextPastForward]_vars

\* either batch page
NextBatch == NextBeatSync \/ NextPastForward

SpecBatch == InitBatch /\ [][NextBatch]_vars

\* ------------------------------------------------------- editor properties
Range(q) == {q[j] : j \in 1..Len(q)}
\* the steps in which updateHistory ran
PushOps == {"editDone", "cropDone", "regenDone", "replace"}

\* C1: historyIndex = -1 when history is empty, and 0 <= historyIndex <
\* history.length otherwise, in every reachable state of the editor.
C1_CursorInRange ==
    IF Len(history) = 0 THEN historyIndex = -1
    ELSE 0 <= historyIndex /\ historyIndex < Len(history)

\* a regenerate is in flight: the cursor was moved back inside a longer history
C1_Witness ==
    /\ ev = "regenerate"
    /\ historyIndex = 0
    /\ Len(history) = 2

\* C2: a push performed at cursor c on a history of length n keeps entries
\* 0..c, discards the entries after c and puts the new entry at c+1: the
\* length becomes c+2 and the cursor c+1 (so redo has nothing to redo).
C2_PushTruncatesAfterCursor ==
    [][ev' \in PushOps =>
          /\ Len(history') = historyIndex + 2
          /\ historyIndex' = historyIndex + 1
          /\ SubSeq(history', 1, historyIndex + 1) = SubSeq(history, 1, historyIndex + 1)
          /\ history'[historyIndex' + 1].id = nextId]_vars

\* C3: when a single generative edit or a crop completes successfully the
\* produced file is the current entry: historyIndex = history.length - 1 and
\* history[historyIndex] is that file.
C3_ResultIsCurrent ==
    ev \in {"editDone", "cropDone", "regenDone"} =>
        /\ historyIndex = Len(history) - 1
        /\ Len(history) >= 1
        /\ history[historyIndex + 1].id = nextId - 1

\* an edit made after an undo has completed
C3_Witness ==
    /\ ev = "editDone"
    /\ Len(history) = 2
    /\ nextId = 4

\* C4: a successful regenerate started at cursor k >= 1 leaves a history of
\* length k+1 with entries 0..k-1 unchanged, the new result at index k and
\* current, and the entry that was current before no longer in the history.
C4_RegenerateReplacesCurrent ==
    [][ev' = "regenDone" =>
          \E t \in edTasks \ edTasks' :
             /\ t.regen
             /\ Len(history') = t.i + 1
             /\ SubSeq(history', 1, t.i) = SubSeq(t.h, 1, t.i)
             /\ historyIndex' = t.i
             /\ history'[t.i + 1].id = nextId
             /\ t.h[t.i + 1] \notin Range(history')]_vars

\* C5: regenerate is a no-op when the cursor is below 1, no LastAction is
\* recorded or a task is loading: history, cursor, LastAction and the tasks
\* in flight are unchanged.
C5_RegenerateNoop ==
    [][(/\ ev' \in {"regenerate", "regenerateNoop"}
        /\ (lastAction = "none" \/ historyIndex < 1 \/ isLoading))
          => UNCHANGED <<history, historyIndex, lastAction, edTasks, isLoading>>]_vars

\* regenerate was asked for at cursor 0 with a LastAction recorded
C5_Witness ==
    /\ ev = "regenerateNoop"
    /\ historyIndex = 0
    /\ lastAction # "none"
    /\ Len(history) = 2

\* C6: undo decrements the cursor by one when cursor > 0, redo increments it
\* by one when cursor < length-1, in every other state each is a no-op, and
\* neither changes the entries.
C6_UndoRedo ==
    [][/\ ev' = "undo" =>
            /\ history' = history
            /\ historyIndex' = IF historyIndex > 0 THEN historyIndex - 1
                                                   ELSE historyIndex
       /\ ev' = "redo" =>
            /\ history' = history
            /\ historyIndex' = IF historyIndex < Len(history) - 1
                                  THEN historyIndex + 1 ELSE historyIndex]_vars

\* a redo took the cursor back to the last entry after an undo
C6_Witness ==
    /\ ev = "redo"
    /\ Len(history) = 2
    /\ historyIndex = 1

\* C7: start-over leaves the history empty, the cursor at -1 and no LastAction.
C7_StartOverResets ==
    ev = "startOver" =>
        /\ history = << >>
        /\ historyIndex = -1
        /\ lastAction = "none"

\* start-over after two files were in the history
C7_Witness ==
    /\ ev = "startOver"
    /\ nextId >= 3

\* ------------------------------------------------- batch pool properties
\* C8: during a run of Past Forward generation at most 2 decade-generation
\* tasks are in flight at every instant.
C8_PastForwardAtMostTwoInFlight ==
    Cardinality(pfRun.tasks) <= 2

\* C9: during a run of BeatSync image generation at most 3 style-generation
\* tasks are in flight at every instant, for every queue length.
C9_BeatSyncAtMostThreeInFlight ==
    Cardinality(bsRun.tasks) <= 3

\* three tasks of a ten-image run are in flight after others have completed
C9_Witness ==
    /\ imageCount = 10
    /\ Cardinality(bsRun.tasks) = 3
    /\ Len(bsRun.queue) = 2
    /\ \E k \in DOMAIN bsImages : bsImages[k] = "error"

\* a run is over: its queue is empty and none of its calls is pending
bsRunOver == bsRun # NoRun /\ Len(bsRun.queue) = 0 /\ bsRun.tasks = {}
pfRunOver == pfRun # pfNoRun /\ Len(pfRun.queue) = 0 /\ pfRun.tasks = {}

\* C10: within one batch run no queued item is started by two workers, and
\* when the run is over every item has been started exactly once.
C10_StartedExactlyOnce ==
    /\ \A k \in DOMAIN bsRun.starts : bsRun.starts[k] <= 1
    /\ \A k \in DOMAIN pfRun.starts : pfRun.starts[k] <= 1
    /\ bsRunOver => \A k \in DOMAIN bsRun.starts : bsRun.starts[k] = 1
    /\ pfRunOver => \A k \in DOMAIN pfRun.starts : pfRun.starts[k] = 1

\* an eight-image BeatSync run is over with failures among its tasks
C10_Witness ==
    /\ bsRunOver
    /\ imageCount = 8
    /\ DOMAIN bsRun.starts = 0..7
    /\ \E k \in DOMAIN bsImages : bsImages[k] = "error"
    /\ \E k \in DOMAIN bsImages : bsImages[k] = "done"

\* C11: a task that fails is recorded as error under its own key, the other
\* keys and the other tasks in flight are left alone, and the worker that ran
\* it takes the next queued item; while items are queued a worker remains.
C11_FailureIsLocal ==
    [][/\ \A t \in bsRun.tasks :
            (/\ t \notin bsRun'.tasks
             /\ DOMAIN bsRun'.result = DOMAIN bsRun.result
             /\ bsRun.result[t.idx] = "none"
             /\ bsRun'.result[t.idx] = "error")
            => /\ t.idx \in DOMAIN bsImages' /\ bsImages'[t.idx] = "error"
               /\ \A k \in DOMAIN bsImages \ {t.idx} :
                     k \in DOMAIN bsImages' /\ bsImages'[k] = bsImages[k]
               /\ bsRun.tasks \ {t} \subseteq bsRun'.tasks
               /\ Len(bsRun.queue) > 0 =>
                     /\ bsRun'.queue = Tail(bsRun.queue)
                     /\ \E u \in bsRun'.tasks \ bsRun.tasks : u.idx = Head(bsRun.queue)
      /\ \A t \in pfRun.tasks :
            (/\ t \notin pfRun'.tasks
             /\ DOMAIN pfRun'.result = DOMAIN pfRun.result
             /\ pfRun.result[t.idx] = "none"
             /\ pfRun'.result[t.idx] = "error")
            => /\ t.idx \in DOMAIN pfImages' /\ pfImages'[t.idx] = "error"
               /\ pfRun.tasks \ {t} \subseteq pfRun'.tasks
               /\ Len(pfRun.queue) > 0 =>
                     /\ pfRun'.loops > 0
                     /\ t.loop =>
                          /\ pfRun'.queue = Tail(pfRun.queue)
                          /\ \E u \in pfRun'.tasks \ pfRun.tasks :
                                u.idx = Head(pfRun.queue)
     ]_vars

\* the first task of a BeatSync run has failed and its worker has taken the
\* fourth item while the second and third are still in flight
C11_Witness ==
    /\ bsAppState = "generating-images"
    /\ bsRun.result[0] = "error"
    /\ bsImages[0] = "error"
    /\ bsImages[1] = "pending" /\ bsImages[2] = "pending"
    /\ \E u \in bsRun.tasks : u.idx = 3
    /\ bsRun.starts[4] = 0

\* no generation call is in flight on the page
bsQuiet == bsRun.tasks = {} /\ CallsOf(bsStale) = 0
pfQuiet == pfRun.tasks = {} /\ pfBackground = 0

\* C12: when all the generation calls have settled, every key of the status
\* map of a batch run is terminal, done for exactly the tasks that succeeded
\* and error for exactly those that failed.
C12_FinalMapIsTrue ==
    /\ (bsRunOver /\ bsQuiet /\ bsImages # EmptyMap) =>
          /\ DOMAIN bsImages = DOMAIN bsRun.result
          /\ \A k \in DOMAIN bsImages :
                bsImages[k] \in {"done", "error"} /\ bsImages[k] = bsRun.result[k]
    /\ (pfRunOver /\ pfQuiet) =>
          /\ DOMAIN pfImages = DOMAIN pfRun.result
          /\ \A k \in DOMAIN pfImages :
                pfImages[k] \in {"done", "error"} /\ pfImages[k] = pfRun.result[k]

\* C13: Past Forward reports its batch as finished (appState 'results-shown',
\* isLoading false) only when no decade of that batch is still pending.
C13_FinishedMeansAllTerminal ==
    (pfAppState = "results-shown" /\ ~pfIsLoading /\ pfRun # pfNoRun) =>
        /\ pfRun.tasks = {}
        /\ \A k \in DOMAIN pfRun.result : pfRun.result[k] \in {"done", "error"}

\* C14: createVideo is invoked only when every task of the batch most
\* recently started by handleGenerate has reached a terminal status.
C14_VideoAfterBatch ==
    [][(bsVideo # "loading" /\ bsVideo' = "loading") =>
          /\ bsRun'.tasks = {}
          /\ \A k \in DOMAIN bsRun'.result : bsRun'.result[k] \in {"done", "error"}
      ]_vars

\* the step in which the last pending entry of a BeatSync batch is written
bsBatchCompletes ==
    /\ bsAppState = "generating-images"
    /\ bsImages' # bsImages
    /\ DOMAIN bsImages' = 0..(imageCount - 1)
    /\ \A k \in DOMAIN bsImages' : bsImages'[k] \in {"done", "error"}

bsNewBatchOrReset ==
    \/ bsImages' = EmptyMap
    \/ bsAppState # "generating-images" /\ bsAppState' = "generating-images"
pfNewBatchOrReset ==
    \/ pfImages' = EmptyMap
    \/ pfAppState = "image-uploaded" /\ pfAppState' = "generating"

\* C16: a status that is done or error never changes again (and never
\* returns to pending) until the user starts a new batch or resets the page.
C16_TerminalIsFinal ==
    [][/\ ~bsNewBatchOrReset =>
            \A k \in DOMAIN bsImages :
               bsImages[k] \in {"done", "error"} =>
                  k \in DOMAIN bsImages' /\ bsImages'[k] = bsImages[k]
       /\ ~pfNewBatchOrReset =>
            \A k \in DOMAIN pfImages :
               pfImages[k] \in {"done", "error"} =>
                  k \in DOMAIN pfImages' /\ pfImages'[k] = pfImages[k]
      ]_vars

\* the step continues the run r as r2 (it is not replaced by another run)
SameRun(r, r2) ==
    /\ DOMAIN r2.starts = DOMAIN r.starts
    /\ \A k \in DOMAIN r.starts : r2.starts[k] >= r.starts[k]

\* C17: a BeatSync task is attempted at most twice; the second attempt is
\* made only after the first failed and the delay has passed; the task is
\* done if either attempt succeeds and error only if both fail.
C17_AtMostOneRetry ==
    [][SameRun(bsRun, bsRun') =>
        /\ \A t \in bsRun.tasks \ bsRun'.tasks :
              \/ /\ t.phase = "call1"
                 /\ \/ bsRun'.result[t.idx] = "done" /\ bsImages'[t.idx] = "done"
                    \/ /\ [idx |-> t.idx, phase |-> "delay"] \in bsRun'.tasks
                       /\ bsRun'.result[t.idx] = "none"
                       /\ bsImages' = bsImages
              \/ /\ t.phase = "delay"
                 /\ [idx |-> t.idx, phase |-> "call2"] \in bsRun'.tasks
                 /\ bsRun'.result[t.idx] = "none"
                 /\ bsImages' = bsImages
              \/ /\ t.phase = "call2"
                 /\ bsRun'.result[t.idx] \in {"done", "error"}
                 /\ bsImages'[t.idx] = bsRun'.result[t.idx]
                 /\ \A u \in bsRun'.tasks : u.idx # t.idx
        /\ \A u \in bsRun'.tasks \ bsRun.tasks :
              \/ u.phase = "call1" /\ bsRun.starts[u.idx] = 0
              \/ u.phase = "delay" /\ [idx |-> u.idx, phase |-> "call1"] \in bsRun.tasks
              \/ u.phase = "call2" /\ [idx |-> u.idx, phase |-> "delay"] \in bsRun.tasks
        /\ \A k \in DOMAIN bsRun.result :
              (bsRun.result[k] = "none" /\ bsRun'.result[k] = "error") =>
                 [idx |-> k, phase |-> "call2"] \in bsRun.tasks
      ]_vars

\* one task has failed twice, one is in its second attempt and one waits for
\* its retry delay
C17_Witness ==
    /\ bsAppState = "generating-images"
    /\ \E k \in DOMAIN bsRun.result : bsRun.result[k] = "error"
    /\ \E t \in bsRun.tasks : t.phase = "call2"
    /\ \E t \in bsRun.tasks : t.phase = "delay"

\* C18: within one batch run the tasks are started in queue order: item i is
\* never started before every item j < i has been started; completions may
\* come in any order.
C18_StartsInQueueOrder ==
    /\ \A i, j \in DOMAIN bsRun.starts :
          (j < i /\ bsRun.starts[i] > 0) => bsRun.starts[j] > 0
    /\ \A i, j \in DOMAIN pfRun.starts :
          (j < i /\ pfRun.starts[i] > 0) => pfRun.starts[j] > 0

\* a later item has completed while an earlier one is still in flight and
\* further items wait in the queue
C18_Witness ==
    /\ Len(bsRun.queue) > 0
    /\ bsRun.result[2] = "done"
    /\ bsRun.result[0] = "none"
    /\ bsRun.starts[3] = 1
    /\ \E t \in bsRun.tasks : t.idx = 0

\* the tasks of run r that write key k
TasksOn(r, k) == Cardinality({t \in r.tasks : t.idx = k})

\* the tasks of the runs of q that write key k
StaleTasksOn(q, k) ==
    SumOver([j \in 1..Len(q) |-> TasksOn(q[j], k)], 1..Len(q))

\* C19: in every reachable state of BeatSyncPage and PastForwardPage the
\* tasks in flight have pairwise distinct keys: no key of the status map has
\* two tasks in flight at once.
C19_DistinctKeysInFlight ==
    /\ \A n \in ImageCounts : \A k \in 0..(n - 1) :
          TasksOn(bsRun, k) + StaleTasksOn(bsStale, k) <= 1
    /\ \A k \in 0..(pfDecadeCount - 1) :
          TasksOn(pfRun, k) + StaleTasksOn(pfStale, k) + pfRegen[k] <= 1

\* C20: when the timeout of the video pipeline fires while the recorder is
\* recording, the pipeline is stopped and ends in the error state with the
\* timeout error shown (the error panel is rendered when appState is 'error'
\* and error is set).
C20_TimeoutEndsInError ==
    [][(/\ bsVideo = "stopping"
        /\ bsError = "timeout"
        /\ bsAppState = "error"
        /\ bsVideo' = "none")
       => (bsAppState' = "error" /\ bsError' = "timeout")]_vars

\* C21: when a generative operation fails (single edit, batch or regenerate),
\* the history and the cursor are as they were when the operation was
\* started, and an error message is set.
C21_FailureRestores ==
    [][\A t \in edTasks :
          (/\ t.kind = "gen"
           /\ t \notin edTasks'
           /\ ev' \in {"taskFailed", "batchPartial", "regenFailed"})
          => (history' = t.h /\ historyIndex' = t.i /\ error')]_vars

\* C22: whenever a LastAction is recorded and the cursor is at least 1, the
\* current entry is the result of that action applied to the entry right
\* before the cursor (looked at when no operation is in flight).
C22_LastActionMadeCurrent ==
    (/\ lastAction # "none" /\ historyIndex >= 1 /\ HasCurrent
     /\ ~isLoading /\ edTasks = {}) =>
        /\ applied.out = history[historyIndex + 1].id
        /\ applied.src = history[historyIndex].id

\* C23: in an editor batch of N > 1 generations a failure of some tasks does
\* not discard the others: when at least one task succeeds the successful
\* results are offered as candidates and no error is reported.
C23_BatchKeepsSuccesses ==
    [][ev' = "batchPartial" =>
          /\ isBatchModalOpen'
          /\ batchCandidates' >= 1
          /\ ~error']_vars

\* C24: no uploaded file larger than 12 MB ever becomes an entry of the
\* editor history.
C24_NoOversizedEntry ==
    \A j \in 1..Len(history) : ~history[j].big

\* C25: a file whose MIME type is not image/* never becomes an entry of the
\* editor history.
C25_OnlyImagesEnter ==
    \A j \in 1..Len(history) : history[j].img

\* C29: isLoading is true in every state in which an editor generative task
\* or a crop is in flight, and at most one such operation is pending.
C29_LoadingWhileInFlight ==
    /\ edTasks # {} => isLoading
    /\ Cardinality(edTasks) <= 1

\* C30: a text-to-image result that arrives after another image was loaded
\* into the editor is ignored: history, cursor and LastAction do not change.
C30_LateResultIgnored ==
    [][(ev' = "t2iDone" /\ HasCurrent) =>
          UNCHANGED <<history, historyIndex, lastAction>>]_vars

\* C31: every editor operation that sets isLoading (edit, batch,
\* regenerate, crop) resets it to false in the end, whether it succeeds or
\* fails.
C31_LoadingEnds == isLoading ~> ~isLoading

\* C32: selecting a candidate of a batch result acts as a push: the entries
\* up to the cursor are preserved and the selected image is appended after
\* the cursor and becomes current.
C32_BatchSelectionPushes ==
    [][ev' = "batchSelect" =>
          /\ Len(history') = historyIndex + 2
          /\ SubSeq(history', 1, historyIndex + 1) = SubSeq(history, 1, historyIndex + 1)
          /\ history'[historyIndex + 2].id = nextId
          /\ historyIndex' = historyIndex + 1]_vars

\* C33: replace-image with an image file acts as a push on the current
\* history: entries 0..cursor are preserved, the new file is appended at
\* cursor+1 and becomes current, and LastAction is cleared.
C33_ReplacePushes ==
    [][ev' = "replace" =>
          /\ Len(history') = historyIndex + 2
          /\ SubSeq(history', 1, historyIndex + 1) = SubSeq(history, 1, historyIndex + 1)
          /\ history'[historyIndex + 2].id = nextId
          /\ historyIndex' = historyIndex + 1
          /\ lastAction' = "none"]_vars

\* the keys on which the run r and the runs of q have a task in flight
KeysOf(r, q) ==
    {t.idx : t \in r.tasks} \cup
    UNION {{t.idx : t \in q[j].tasks} : j \in 1..Len(q)}

\* the keys whose entry differs between the maps m and m2
ChangedKeys(m, m2) ==
    {k \in DOMAIN m \cup DOMAIN m2 :
        k \notin DOMAIN m \/ k \notin DOMAIN m2 \/ m[k] # m2[k]}

\* C34: a task completion changes only its own key of the status map: in a
\* step that is not a new batch or a reset, the entries of all keys but the
\* one of the task that completes (and, in Past Forward, the one the worker
\* marks pending as it starts it) are preserved.
C34_CompletionWritesOwnKey ==
    [][/\ ~bsNewBatchOrReset =>
            LET ch == ChangedKeys(bsImages, bsImages')
            IN  ch \subseteq KeysOf(bsRun, bsStale) /\ Cardinality(ch) <= 1
       /\ ~pfNewBatchOrReset =>
            LET ch == ChangedKeys(pfImages, pfImages')
                before == KeysOf(pfRun, pfStale)
                             \cup {k \in DOMAIN pfRegen : pfRegen[k] > 0}
                after == KeysOf(pfRun', pfStale')
                             \cup {k \in DOMAIN pfRegen' : pfRegen'[k] > 0}
            IN  /\ ch \subseteq before \cup after
                /\ Cardinality(ch \cap before) <= 1
                /\ \A k \in DOMAIN pfImages \ ch :
                      k \in DOMAIN pfImages' /\ pfImages'[k] = pfImages[k]
      ]_vars

\* completions came out of order: a later key is done and an earlier one has
\* failed while the key between them is still pending
C34_Witness ==
    /\ bsAppState = "generating-images"
    /\ imageCount = 6
    /\ bsImages[0] = "error"
    /\ bsImages[1] = "pending"
    /\ bsImages[2] = "done"
    /\ bsImages[4] = "done"

\* C35: after Past Forward is reset it stays reset: from the state resetState
\* leaves (appState 'idle', empty status map) every step that is not the
\* upload of a new image keeps appState 'idle' and the map empty, also when
\* tasks of the abandoned batch complete.
C35_ResetStaysReset ==
    [][(pfAppState = "idle" /\ pfImages = EmptyMap /\ ~pfUploaded')
          => (pfAppState' = "idle" /\ pfImages' = EmptyMap)]_vars

\* C36: an invocation calls the model at most twice; the second call is made
\* exactly when the first failed because the model answered with text, and it
\* carries the fallback prompt; every other error of the first call and any
\* error of the fallback call is the error the function throws.
C36_FallbackOnce ==
    genPhase \in {"second", "returned", "threw"} =>
        LET n == Len(genCalls)
        IN  /\ n <= 2
            /\ (genPhase = "second" \/ n = 2)
                  <=> (n >= 1 /\ genCalls[1].o.kind = "text")
            /\ genPhase = "second" => n = 1
            /\ n >= 1 => genCalls[1].text = primaryText(genFn, genPrompt)
            /\ n = 2 => genCalls[2].text = fallbackText(genFn, genPrompt)
            /\ (genPhase = "threw" /\ n >= 1) =>
                  /\ genCalls[n].o.kind # "image"
                  /\ genError = callImageEditingModel(genCalls[n].o, genCalls[n].action)
            /\ genPhase = "returned" => genCalls[n].o.kind = "image"

\* the fallback call of a decade generation was made and failed in its turn
C36_Witness ==
    /\ genFn = "decade"
    /\ genPhase = "threw"
    /\ Len(genCalls) = 2
    /\ genCalls[2].o.kind = "rejects"

\* C37: loading a template from the URL hash always ends with
\* isTemplateLoading = false; when it succeeds the history is exactly the
\* template image with cursor 0, the template's prompt is preset and the hash
\* is cleared; when it fails the history is unchanged and an error is set.
C37_TemplateLoadEnds ==
    /\ [][/\ ev' = "tplLoaded" =>
               /\ history' = <<File(nextId, FALSE, TRUE)>>
               /\ historyIndex' = 0
               /\ initialAdjustPrompt' = PromptOf(tplLoad.id)
               /\ hash' = "none"
               /\ ~isTemplateLoading'
          /\ ev' = "tplFailed" =>
               /\ UNCHANGED <<history, historyIndex>>
               /\ error'
               /\ ~isTemplateLoading'
         ]_vars
    /\ (isTemplateLoading ~> ~isTemplateLoading)

\* the template named in the hash was loaded into the editor
C37_Witness ==
    /\ ev = "tplLoaded"
    /\ mounted = "editor"
    /\ Len(history) = 1
    /\ historyIndex = 0
    /\ initialAdjustPrompt = PromptOf("t1")
    /\ hash = "none"
    /\ tplStale = << >>

\* C38: switching the active view away from the editor and back preserves
\* the editor: a change of view leaves history, cursor and LastAction alone.
C38_ViewChangeKeepsEditor ==
    [][ev' = "viewChange" => UNCHANGED <<history, historyIndex, lastAction>>]_vars

\* C39: the list of images passed to createVideo is determined by the set of
\* successful style indexes alone: it lists exactly the indexes whose status
\* is done, in ascending order, whatever the order of completion.
C39_VideoListByIndex ==
    createVideoArg # << >> =>
        /\ {createVideoArg[j] : j \in 1..Len(createVideoArg)}
              = {k \in DOMAIN generatedImages.st : generatedImages.st[k] = "done"}
        /\ \A i, j \in 1..Len(createVideoArg) :
              i < j => createVideoArg[i] < createVideoArg[j]

\* createVideo was called after two successful tasks completed against the
\* order of their indexes
C39_Witness ==
    /\ Len(createVideoArg) >= 2
    /\ \E i, j \in 1..Len(completionOrder) :
          /\ i < j
          /\ completionOrder[i] > completionOrder[j]
          /\ generatedImages.st[completionOrder[i]] = "done"
          /\ generatedImages.st[completionOrder[j]] = "done"

\* ----------------------------------------------------- settings properties
\* a call of getGoogleAI (one that tells its caller something new)
GetGoogleAICalled ==
    booted /\ aiResult' # aiResult /\ UNCHANGED <<lsApiKey, lsBaseUrl>>

\* C26: getGoogleAI returns a client built from the API key and the base URL
\* stored at the time of the call (as getApiKey and getBaseUrl read them):
\* the cached client is returned if and only if both equal the pair it was
\* built with, a new one is built otherwise; with no stored key the call
\* throws and returns no client.  (A constructor that throws ends the call
\* with an error and no client.)
C26_ClientMatchesSettings ==
    [][GetGoogleAICalled =>
        LET apiKey == getApiKey(lsApiKey)
            baseUrl == getBaseUrl(lsBaseUrl)
            client == aiResult'.client
        IN  /\ ~Truthy(apiKey) => (aiResult'.kind = "noKey" /\ aiInstance' = aiInstance)
            /\ Truthy(apiKey) => aiResult'.kind \in {"client", "initFailed"}
            /\ aiResult'.kind = "client" =>
                  /\ Truthy(apiKey)
                  /\ client.live
                  /\ client.from = <<apiKey, baseUrl>>
                  /\ client.apiKey = apiKey
                  /\ client.baseUrl = IF Truthy(baseUrl) THEN baseUrl ELSE Undefined
                  /\ aiInstance' = client
                  /\ (client.id = aiInstance.id)
                        <=> (aiInstance.live /\ aiInstance.from = <<apiKey, baseUrl>>)
                  /\ (client.id # aiInstance.id) => client.id = nextClient
            /\ aiResult'.kind = "initFailed" => ~aiInstance'.live
      ]_vars

\* the cached client is returned for a stored URL that is written differently
\* but reads the same, after an earlier client was replaced
C26_Witness ==
    /\ aiResult.kind = "client"
    /\ aiResult.reused
    /\ aiResult.client.id = 2
    /\ lsBaseUrl = Str(<<" ", "u", "/", " ">>)
    /\ aiResult.client.baseUrl = Str(<<"u">>)

\* C27 as stated: on startup each of ?key= and ?server= that is present and
\* not empty overwrites its stored setting, an absent one leaves it as it
\* was, and afterwards the URL has no query string, with path and hash kept.
C27_UrlImport ==
    [][(~booted /\ booted') =>
        /\ lsApiKey' = IF Truthy(location.key) THEN location.key ELSE lsApiKey
        /\ lsBaseUrl' = IF Truthy(location.server) THEN location.server ELSE lsBaseUrl
        /\ location'.key = Null /\ location'.server = Null /\ ~location'.other
        /\ location'.pathname = location.pathname
        /\ location'.hash = location.hash
      ]_vars

\* C27 amended: the settings are imported as stated; the query string is
\* removed, with path and hash kept, when at least one of the two parameters
\* was imported, and the URL is left as it is otherwise.
C27_UrlImportWhenImported ==
    [][(~booted /\ booted') =>
        /\ lsApiKey' = IF Truthy(location.key) THEN location.key ELSE lsApiKey
        /\ lsBaseUrl' = IF Truthy(location.server) THEN location.server ELSE lsBaseUrl
        /\ location' = IF Truthy(location.key) \/ Truthy(location.server)
                         THEN [key |-> Null, server |-> Null, other |-> FALSE,
                               pathname |-> location.pathname,
                               hash |-> location.hash]
                         ELSE location
      ]_vars

\* the key was imported from the URL, the stored server was left alone, and
\* the query string is gone while the hash is still there
C27_Witness ==
    /\ booted
    /\ lsApiKey = Str(<<"p">>)
    /\ lsBaseUrl = Str(<<"v">>)
    /\ location = [key |-> Null, server |-> Null, other |-> FALSE,
                   pathname |-> "/aice", hash |-> "#top"]

\* C28: the API key is looked up in priority order: a non-blank key stored in
\* localStorage is used; otherwise the build-time key (API_KEY) is used; the
\* call fails with the missing-key error only when neither exists.
C28_KeyFallback ==
    [][GetGoogleAICalled =>
        LET stored == getApiKey(lsApiKey)
        IN  /\ (Truthy(stored) /\ aiResult'.kind = "client")
                  => aiResult'.client.apiKey = stored
            /\ (~Truthy(stored) /\ Truthy(envApiKey))
                  => aiResult'.kind \in {"client", "initFailed"}
            /\ (~Truthy(stored) /\ Truthy(envApiKey) /\ aiResult'.kind = "client")
                  => aiResult'.client.apiKey = envApiKey
            /\ aiResult'.kind = "noKey" => (~Truthy(stored) /\ ~Truthy(envApiKey))
      ]_vars

====
